---- MODULE Spec2Model ----
(***************************************************************************)
(* InitRepo CLI: file discovery (file-handler.js), the project-structure   *)
(* tree and statistics table (generate-project-structure.js), the          *)
(* full-codebase export (generate-full-codebase.js), the tech-stack        *)
(* document (generate-tech-stack.js), the default command (main.js) and    *)
(* the scaffold command (scaffold-handler.js).                             *)
(*                                                                         *)
(* Text is a sequence of one-character strings, so that split, trim,       *)
(* startsWith, endsWith, includes, lastIndexOf and toLowerCase are         *)
(* computed as the JavaScript computes them.  A string of the form         *)
(* "U+00E9" stands for the single character of that code point.  Messages  *)
(* that the code only concatenates are plain strings.                      *)
(***************************************************************************)
EXTENDS Integers, Sequences, FiniteSets, TLC

VARIABLES
  tree,            \* discovery: relative paths of the regular files on disk
  gitignore,       \* discovery: state of <root>/.gitignore
  initrepoignore,  \* discovery: state of <root>/.initrepoignore
  calls,           \* discovery: one record per finished getRelevantFiles call
  filePaths,       \* reading: the argument of readFiles
  disk,            \* reading: what readFileSync finds at each path
  readResult,      \* reading: how the readFiles call settled
  relativePaths,   \* tree: the relative paths given to buildFileTree
  fileTree,        \* tree: how the buildFileTree call ended
  fileStatistics,  \* tree: what generateFileStatistics returned
  treeString,      \* tree: what generateTreeString returned
  projectStructure,\* tree: the content of project-structure.md
  fileContents,    \* export: the FileRecords given to generateFullCodebase
  xmlData,         \* export: the document generateFullCodebase builds
  fullXml,         \* export: the content elements of the written full-codebase.xml
  options,         \* run: the command-line options of the default command
  pc,              \* run: where the run stands
  outputDirExists, \* run: whether <cwd>/.initrepo exists
  outputFiles,     \* run: the documents found in <cwd>/.initrepo
  written,         \* run: the documents this run has written, in order
  messages,        \* run: what the run has displayed
  exitCode,        \* run: the exit code of the process
  manifests,       \* tech stack: the state of each manifest file
  techStack,       \* tech stack: how the generateTechStack call ended
  ignoreContent,   \* parsing: the content given to parseIgnoreFile
  parsedPatterns,  \* parsing: what parseIgnoreFile returned
  scaffoldCall,    \* scaffold: the arguments and surroundings of the command
  scaffoldResult,  \* scaffold: what handleScaffoldCommand did
  extensionCall,   \* extension: the platform and the relative path of a file
  extensionResult  \* extension: what the two getFileExtension functions returned

discoveryVars == <<tree, gitignore, initrepoignore, calls>>
readVars == <<filePaths, disk, readResult>>
treeVars == <<relativePaths, fileTree, fileStatistics, treeString, projectStructure>>
exportVars == <<fileContents, xmlData, fullXml>>
runVars == <<options, pc, outputDirExists, outputFiles, written, messages, exitCode>>
techVars == <<manifests, techStack>>
parseVars == <<ignoreContent, parsedPatterns>>
scaffoldVars == <<scaffoldCall, scaffoldResult>>
extensionVars == <<extensionCall, extensionResult>>
vars == <<discoveryVars, readVars, treeVars, exportVars, runVars, techVars, parseVars,
          scaffoldVars, extensionVars>>

-----------------------------------------------------------------------------
(* Bounds *)

MaxFiles == 2
MaxCalls == 2
MaxPaths == 3
MaxTreePaths == 3
MaxRecords == 3
MaxStatPaths == 3
MaxLines == 3

-----------------------------------------------------------------------------
(* JavaScript string and array methods *)

Range(s) == {s[i] : i \in 1..Len(s)}

Last(s) == s[Len(s)]

StartsWith(s, p) == Len(p) <= Len(s) /\ SubSeq(s, 1, Len(p)) = p

EndsWith(s, p) == Len(p) <= Len(s) /\ SubSeq(s, Len(s) - Len(p) + 1, Len(s)) = p

Includes(s, p) == \E i \in 1..(Len(s) - Len(p) + 1) : SubSeq(s, i, i + Len(p) - 1) = p

\* s.lastIndexOf(c), one-based: 0 stands for JavaScript's -1
LastIndexOf(s, c) ==
  IF \E i \in 1..Len(s) : s[i] = c
  THEN CHOOSE i \in 1..Len(s) : s[i] = c /\ \A j \in (i + 1)..Len(s) : s[j] # c
  ELSE 0

\* s.split(c) for a one-character separator: never empty, keeps empty pieces
RECURSIVE Split(_, _)
Split(s, c) ==
  IF \A i \in 1..Len(s) : s[i] # c
  THEN <<s>>
  ELSE LET i == CHOOSE i \in 1..Len(s) : s[i] = c /\ \A j \in 1..(i - 1) : s[j] # c
       IN  <<SubSeq(s, 1, i - 1)>> \o Split(SubSeq(s, i + 1, Len(s)), c)

RECURSIVE Concat(_)
Concat(texts) == IF texts = <<>> THEN <<>> ELSE Head(texts) \o Concat(Tail(texts))

\* parts.join(c)
RECURSIVE JoinWith(_, _)
JoinWith(parts, c) ==
  IF parts = <<>> THEN <<>>
  ELSE IF Len(parts) = 1 THEN parts[1]
  ELSE parts[1] \o <<c>> \o JoinWith(Tail(parts), c)

UpperCaseLetters == <<"A","B","C","D","E","F","G","H","I","J","K","L","M","N","O","P","Q","R","S","T","U","V","W","X","Y","Z">>
LowerCaseLetters == <<"a","b","c","d","e","f","g","h","i","j","k","l","m","n","o","p","q","r","s","t","u","v","w","x","y","z">>

LowerChar(c) ==
  IF \E i \in 1..26 : UpperCaseLetters[i] = c
  THEN LowerCaseLetters[CHOOSE i \in 1..26 : UpperCaseLetters[i] = c]
  ELSE c

ToLowerCase(s) == [i \in 1..Len(s) |-> LowerChar(s[i])]

WhiteSpace == {" ", "\t", "\n", "\r"}

RECURSIVE TrimStart(_)
TrimStart(s) == IF s # <<>> /\ Head(s) \in WhiteSpace THEN TrimStart(Tail(s)) ELSE s

RECURSIVE TrimEnd(_)
TrimEnd(s) ==
  IF s # <<>> /\ Last(s) \in WhiteSpace THEN TrimEnd(SubSeq(s, 1, Len(s) - 1)) ELSE s

Trim(s) == TrimEnd(TrimStart(s))

\* array.filter(keep) is SelectSeq(s, keep); array.map(f) is
\* [i \in 1..Len(s) |-> f(s[i])]

-----------------------------------------------------------------------------
(* node:path on POSIX *)

\* the segments of a path after normalisation: empty and "." segments are
\* dropped, ".." removes the segment before it
RECURSIVE Resolve(_, _)
Resolve(parts, acc) ==
  IF parts = <<>> THEN acc
  ELSE LET p == Head(parts) IN
       IF p = <<>> \/ p = <<".">> THEN Resolve(Tail(parts), acc)
       ELSE IF p = <<".",".">> /\ acc # <<>> /\ Last(acc) # <<".",".">>
            THEN Resolve(Tail(parts), SubSeq(acc, 1, Len(acc) - 1))
       ELSE Resolve(Tail(parts), Append(acc, p))

\* path.join(a, b) with a absolute
Join(a, b) == <<"/">> \o JoinWith(Resolve(Split(a \o <<"/">> \o b, "/"), <<>>), "/")

CommonPrefixLen(a, b) ==
  CHOOSE n \in 0..Len(a) :
    /\ n <= Len(b)
    /\ SubSeq(a, 1, n) = SubSeq(b, 1, n)
    /\ (n < Len(a) /\ n < Len(b) => a[n + 1] # b[n + 1])

\* path.relative(from, to) with both absolute
Relative(from, to) ==
  LET f == Resolve(Split(from, "/"), <<>>)
      t == Resolve(Split(to, "/"), <<>>)
      n == CommonPrefixLen(f, t)
  IN  JoinWith([i \in 1..(Len(f) - n) |-> <<".",".">>] \o SubSeq(t, n + 1, Len(t)), "/")

\* path.basename(p)
Basename(p) == Last(Split(p, "/"))

-----------------------------------------------------------------------------
(* file-handler.js *)

\* 'node_modules/**', '.git/**', '.svn/**', '.hg/**', 'dist/**', 'build/**',
\* 'out/**', 'target/**', '.next/**', '.nuxt/**', '.vuepress/dist/**',
\* 'coverage/**', '.nyc_output/**', '.cache/**', '.parcel-cache/**',
\* '.DS_Store', 'Thumbs.db', '*.log', '.env', '.env.local', '.env.*.local',
\* '*.tmp', '*.temp', '*.swp', '*.swo', '*~', '.initrepo/**'
DEFAULT_IGNORE_PATTERNS == <<
  <<"n","o","d","e","_","m","o","d","u","l","e","s","/","*","*">>, <<".","g","i","t","/","*","*">>, <<".","s","v","n","/","*","*">>, <<".","h","g","/","*","*">>, <<"d","i","s","t","/","*","*">>, <<"b","u","i","l","d","/","*","*">>,
  <<"o","u","t","/","*","*">>, <<"t","a","r","g","e","t","/","*","*">>, <<".","n","e","x","t","/","*","*">>, <<".","n","u","x","t","/","*","*">>, <<".","v","u","e","p","r","e","s","s","/","d","i","s","t","/","*","*">>,
  <<"c","o","v","e","r","a","g","e","/","*","*">>, <<".","n","y","c","_","o","u","t","p","u","t","/","*","*">>, <<".","c","a","c","h","e","/","*","*">>, <<".","p","a","r","c","e","l","-","c","a","c","h","e","/","*","*">>,
  <<".","D","S","_","S","t","o","r","e">>, <<"T","h","u","m","b","s",".","d","b">>, <<"*",".","l","o","g">>, <<".","e","n","v">>, <<".","e","n","v",".","l","o","c","a","l">>, <<".","e","n","v",".","*",".","l","o","c","a","l">>,
  <<"*",".","t","m","p">>, <<"*",".","t","e","m","p">>, <<"*",".","s","w","p">>, <<"*",".","s","w","o">>, <<"*","~">>, <<".","i","n","i","t","r","e","p","o","/","*","*">> >>

\* 'js', 'jsx', 'ts', 'tsx', 'vue', 'svelte', 'py', 'rb', 'php', 'java', 'kt',
\* 'scala', 'go', 'rs', 'cpp', 'c', 'h', 'hpp', 'cs', 'fs', 'vb', 'swift',
\* 'dart', 'html', 'htm', 'css', 'scss', 'sass', 'less', 'json', 'xml', 'yaml',
\* 'yml', 'toml', 'md', 'txt', 'sql', 'sh', 'bash', 'zsh', 'ps1', 'bat', 'cmd',
\* 'dockerfile', 'makefile', 'cmake', 'gradle'
SOURCE_FILE_EXTENSIONS == <<
  <<"j","s">>, <<"j","s","x">>, <<"t","s">>, <<"t","s","x">>, <<"v","u","e">>, <<"s","v","e","l","t","e">>,
  <<"p","y">>, <<"r","b">>, <<"p","h","p">>, <<"j","a","v","a">>, <<"k","t">>, <<"s","c","a","l","a">>,
  <<"g","o">>, <<"r","s">>, <<"c","p","p">>, <<"c">>, <<"h">>, <<"h","p","p">>,
  <<"c","s">>, <<"f","s">>, <<"v","b">>, <<"s","w","i","f","t">>, <<"d","a","r","t">>,
  <<"h","t","m","l">>, <<"h","t","m">>, <<"c","s","s">>, <<"s","c","s","s">>, <<"s","a","s","s">>, <<"l","e","s","s">>,
  <<"j","s","o","n">>, <<"x","m","l">>, <<"y","a","m","l">>, <<"y","m","l">>, <<"t","o","m","l">>,
  <<"m","d">>, <<"t","x","t">>, <<"s","q","l">>, <<"s","h">>, <<"b","a","s","h">>, <<"z","s","h">>,
  <<"p","s","1">>, <<"b","a","t">>, <<"c","m","d">>, <<"d","o","c","k","e","r","f","i","l","e">>,
  <<"m","a","k","e","f","i","l","e">>, <<"c","m","a","k","e">>, <<"g","r","a","d","l","e">> >>

\* the names isSourceFile looks for anywhere in the lowercased path:
\* 'makefile', 'dockerfile', 'package.json', 'composer.json', 'cargo.toml',
\* 'pyproject.toml', 'pom.xml', 'build.gradle'
ManifestMarkers == <<
  <<"m","a","k","e","f","i","l","e">>, <<"d","o","c","k","e","r","f","i","l","e">>, <<"p","a","c","k","a","g","e",".","j","s","o","n">>, <<"c","o","m","p","o","s","e","r",".","j","s","o","n">>,
  <<"c","a","r","g","o",".","t","o","m","l">>, <<"p","y","p","r","o","j","e","c","t",".","t","o","m","l">>, <<"p","o","m",".","x","m","l">>, <<"b","u","i","l","d",".","g","r","a","d","l","e">> >>

\* content.split('\n').map(trim).filter(line && !line.startsWith('#'))
\*        .map(line => line.endsWith('/') ? line + '**' : line)
\* parseIgnoreFile without the trim
parseIgnoreFile_noTrim(content) ==
  LET lines == Split(content, "\n")
      kept  == SelectSeq(lines, LAMBDA line : line # <<>> /\ ~StartsWith(line, <<"#">>))
  IN  [i \in 1..Len(kept) |->
         IF EndsWith(kept[i], <<"/">>) THEN kept[i] \o <<"*","*">> ELSE kept[i]]

parseIgnoreFile(content) ==
  LET split    == Split(content, "\n")
      lines    == [i \in 1..Len(split) |-> Trim(split[i])]
      kept     == SelectSeq(lines, LAMBDA line : line # <<>> /\ ~StartsWith(line, <<"#">>))
  IN  [i \in 1..Len(kept) |->
         IF EndsWith(kept[i], <<"/">>) THEN kept[i] \o <<"*","*">> ELSE kept[i]]

\* One ignore file of the project root: existsSync(path), and what
\* readFileSync(path, 'utf-8') does: it returns content, or throws an error
\* with message error (error = "" when the read succeeds).
AbsentFile == [exists |-> FALSE, error |-> "", content |-> <<>>]
UnreadableFile == [exists |-> TRUE, error |-> "EACCES: permission denied", content |-> <<>>]
TextFile(content) == [exists |-> TRUE, error |-> "", content |-> content]

\* the if (existsSync) { try { push(...parse(read)) } catch { warn } } block
\* that getIgnorePatterns runs once per ignore file
addIgnoreFile(acc, file, name) ==
  IF ~file.exists THEN acc
  ELSE IF file.error # ""
       THEN [acc EXCEPT !.warnings =
               Append(@, "Warning: Could not read " \o name \o ": " \o file.error)]
  ELSE [acc EXCEPT !.patterns = @ \o parseIgnoreFile(file.content)]

\* getIgnorePatterns giving up on .initrepoignore when .gitignore exists
\* and cannot be read
getIgnorePatterns_stopAtUnreadable(git, initrepo) ==
  IF git.exists /\ git.error # ""
  THEN addIgnoreFile([patterns |-> DEFAULT_IGNORE_PATTERNS, warnings |-> <<>>],
                     git, ".gitignore")
  ELSE addIgnoreFile(
         addIgnoreFile([patterns |-> DEFAULT_IGNORE_PATTERNS, warnings |-> <<>>],
                       git, ".gitignore"),
         initrepo, ".initrepoignore")

\* the patterns getIgnorePatterns returns, and the warnings it prints
getIgnorePatterns(git, initrepo) ==
  addIgnoreFile(
    addIgnoreFile([patterns |-> DEFAULT_IGNORE_PATTERNS, warnings |-> <<>>],
                  git, ".gitignore"),
    initrepo, ".initrepoignore")

isSourceFile(filePath) ==
  LET extension == ToLowerCase(Last(Split(filePath, ".")))
  IN  IF extension = <<>> THEN FALSE
      ELSE \/ extension \in Range(SOURCE_FILE_EXTENSIONS)
           \/ \E i \in 1..Len(ManifestMarkers) :
                Includes(ToLowerCase(filePath), ManifestMarkers[i])


-----------------------------------------------------------------------------
(* globby(['**/*'], {cwd, ignore, dot: false, onlyFiles: true,             *)
(*                   followSymbolicLinks: false})                          *)
(*                                                                         *)
(* globby hands the patterns and the ignore option to fast-glob.  The glob *)
(* syntax modelled is what the program's patterns use: literal characters, *)
(* '*' inside a segment, and '**' as a whole segment.                      *)

\* '*' matches any run of characters of one segment
RECURSIVE WildMatch(_, _)
WildMatch(p, s) ==
  IF p = <<>> THEN s = <<>>
  ELSE IF Head(p) = "*"
       THEN WildMatch(Tail(p), s) \/ (s # <<>> /\ WildMatch(p, Tail(s)))
  ELSE s # <<>> /\ Head(s) = Head(p) /\ WildMatch(Tail(p), Tail(s))

\* '**' matches any number of whole segments, none included; every other
\* pattern segment matches exactly one path segment.  A pattern is matched
\* against the whole path relative to cwd (no basename matching).
RECURSIVE SegmentsMatch(_, _)
SegmentsMatch(ps, ss) ==
  IF ps = <<>> THEN ss = <<>>
  ELSE IF Head(ps) = <<"*","*">>
       THEN SegmentsMatch(Tail(ps), ss) \/ (ss # <<>> /\ SegmentsMatch(ps, Tail(ss)))
  ELSE ss # <<>> /\ WildMatch(Head(ps), Head(ss)) /\ SegmentsMatch(Tail(ps), Tail(ss))

\* fast-glob adds the ignore option to the negative patterns and makes
\* every one of them a positive pattern to exclude by: a leading '!' is cut
convertToPositivePattern(pattern) ==
  IF StartsWith(pattern, <<"!">>) THEN Tail(pattern) ELSE pattern

\* an entry is left out when an ignore pattern matches it (entry filter) or
\* matches a directory above it, which is then not read (deep filter)
IsIgnored(path, ignore) ==
  LET ss == Split(path, "/") IN
  \E i \in 1..Len(ignore), k \in 1..Len(ss) :
     SegmentsMatch(Split(convertToPositivePattern(ignore[i]), "/"), SubSeq(ss, 1, k))

\* dot: false: '**/*' matches no segment that starts with '.'
HasDotSegment(path) ==
  LET ss == Split(path, "/") IN \E k \in 1..Len(ss) : StartsWith(ss[k], <<".">>)

Matched(files, ignore) ==
  {f \in files : ~HasDotSegment(f) /\ ~IsIgnored(f, ignore)}

\* The files a project may hold, in the order readdir lists them.
\* src/app.js, docs/README.MD, build/important.js, build/vendor.js,
\* node_modules/dep/index.js, pkg/node_modules/x.js, Dockerfile, image.png,
\* go, bin/go, src/.cache.js
ProjectFileUniverse == <<
  <<"s","r","c","/","a","p","p",".","j","s">>, <<"d","o","c","s","/","R","E","A","D","M","E",".","M","D">>, <<"b","u","i","l","d","/","i","m","p","o","r","t","a","n","t",".","j","s">>, <<"b","u","i","l","d","/","v","e","n","d","o","r",".","j","s">>,
  <<"n","o","d","e","_","m","o","d","u","l","e","s","/","d","e","p","/","i","n","d","e","x",".","j","s">>, <<"p","k","g","/","n","o","d","e","_","m","o","d","u","l","e","s","/","x",".","j","s">>, <<"D","o","c","k","e","r","f","i","l","e">>,
  <<"i","m","a","g","e",".","p","n","g">>, <<"g","o">>, <<"b","i","n","/","g","o">>, <<"s","r","c","/",".","c","a","c","h","e",".","j","s">> >>

DirOf(path) == LET ss == Split(path, "/") IN SubSeq(ss, 1, Len(ss) - 1)

DirsOf(files) ==
  UNION {{SubSeq(Split(f, "/"), 1, k) : k \in 0..(Len(Split(f, "/")) - 1)} : f \in files}
  \cup {<<>>}

ChildDirs(d, dirs) ==
  {e \in dirs : Len(e) = Len(d) + 1 /\ SubSeq(e, 1, Len(d)) = d}

\* The walk reads directories concurrently: a directory is read after its
\* parent, in no fixed order among the directories that are pending
\* (fast-glob returns its results in arbitrary order).
RECURSIVE WalkOrders(_, _)
WalkOrders(pending, dirs) ==
  IF pending = {} THEN {<<>>}
  ELSE UNION {{<<d>> \o w : w \in WalkOrders((pending \ {d}) \cup ChildDirs(d, dirs), dirs)}
                : d \in pending}

\* the entries of one directory come in readdir order
RECURSIVE EntriesInOrder(_, _)
EntriesInOrder(order, files) ==
  IF order = <<>> THEN <<>>
  ELSE SelectSeq(ProjectFileUniverse, LAMBDA f : f \in files /\ DirOf(f) = Head(order))
       \o EntriesInOrder(Tail(order), files)

\* what enumeration fails with, when it fails
EnumerationErrors == {"Permission denied", "EMFILE: too many open files"}

\* every way the globby call can settle for the files on disk
globby(files, ignore) ==
  LET found == Matched(files, ignore) IN
  {[status |-> "fulfilled", value |-> EntriesInOrder(order, found), message |-> ""] :
      order \in WalkOrders({<<>>}, DirsOf(found))}
  \cup
  {[status |-> "rejected", value |-> <<>>, message |-> m] : m \in EnumerationErrors}

\* getRelevantFiles with the catch block rethrowing without the cause
getRelevantFiles_noCause(projectRoot, globbed) ==
  IF globbed.status = "rejected"
  THEN [status |-> "rejected", value |-> <<>>, message |-> "Failed to scan files"]
  ELSE LET sourceFiles == SelectSeq(globbed.value, isSourceFile)
       IN  [status |-> "fulfilled",
            value |-> [i \in 1..Len(sourceFiles) |-> Join(projectRoot, sourceFiles[i])],
            message |-> ""]

\* getRelevantFiles once the globby call has settled as globbed
getRelevantFiles(projectRoot, globbed) ==
  IF globbed.status = "rejected"
  THEN [status |-> "rejected", value |-> <<>>,
        message |-> "Failed to scan files: " \o globbed.message]
  ELSE LET allFiles    == globbed.value
           sourceFiles == SelectSeq(allFiles, isSourceFile)
       IN  [status |-> "fulfilled",
            value |-> [i \in 1..Len(sourceFiles) |-> Join(projectRoot, sourceFiles[i])],
            message |-> ""]

-----------------------------------------------------------------------------
(* Discovery: getRelevantFiles is called on one unchanged project *)

ProjectRoot == <<"/","p","r","o","j">>

\* build/ then !build/important.js
GitignoreNegation == TextFile(<<"b","u","i","l","d","/","\n","!","b","u","i","l","d","/","i","m","p","o","r","t","a","n","t",".","j","s","\n">>)

\* a comment, a blank line, an indented directory rule and a suffix rule
GitignoreDocs == TextFile(<<"#"," ","d","o","c","s","\n","\n"," "," ","d","o","c","s","/"," "," ","\n","*",".","p","n","g">>)

GitignoreStates == {AbsentFile, UnreadableFile, TextFile(<<>>), GitignoreNegation, GitignoreDocs}

InitrepoignoreStates == {AbsentFile, UnreadableFile, TextFile(<<"s","r","c","/","\n">>)}

Pending == [status |-> "pending"]

ReadIdle == filePaths = <<>> /\ disk = <<>> /\ readResult = Pending

TreeIdle ==
  /\ relativePaths = <<>>
  /\ fileTree = Pending
  /\ fileStatistics = Pending
  /\ treeString = Pending
  /\ projectStructure = Pending

ExportIdle == fileContents = <<>> /\ xmlData = Pending /\ fullXml = Pending

RunIdle ==
  /\ options = [init |-> FALSE]
  /\ pc = "idle"
  /\ outputDirExists = FALSE
  /\ outputFiles = {}
  /\ written = <<>>
  /\ messages = <<>>
  /\ exitCode = 0

TechIdle == manifests = <<>> /\ techStack = Pending

ParseIdle == ignoreContent = <<>> /\ parsedPatterns = Pending

ScaffoldIdle == scaffoldCall = Pending /\ scaffoldResult = Pending

ExtensionIdle == extensionCall = Pending /\ extensionResult = Pending

Init ==
  /\ ReadIdle
  /\ TreeIdle
  /\ ExportIdle
  /\ RunIdle
  /\ TechIdle
  /\ ParseIdle
  /\ ScaffoldIdle
  /\ ExtensionIdle
  /\ tree \in {S \in SUBSET Range(ProjectFileUniverse) : Cardinality(S) <= MaxFiles}
  /\ gitignore \in GitignoreStates
  /\ initrepoignore \in InitrepoignoreStates
  /\ calls = <<>>

GetRelevantFiles ==
  /\ Len(calls) < MaxCalls
  /\ LET ignorePatterns == getIgnorePatterns(gitignore, initrepoignore).patterns IN
     \E globbed \in globby(tree, ignorePatterns) :
        calls' = Append(calls, [ignore  |-> ignorePatterns,
                                globbed |-> globbed,
                                result  |-> getRelevantFiles(ProjectRoot, globbed)])
  /\ UNCHANGED <<tree, gitignore, initrepoignore, readVars, treeVars, exportVars, runVars, techVars, parseVars, scaffoldVars, extensionVars>>

Next == GetRelevantFiles

Spec == Init /\ [][Next]_vars

-----------------------------------------------------------------------------
(* Claims about discovery *)

Fulfilled(i) == calls[i].result.status = "fulfilled"

Returned(i) == Range(calls[i].result.value)

\* C1: with build/ followed by !build/important.js in .gitignore, a
\* getRelevantFiles call that succeeds returns build/important.js and does
\* not return build/vendor.js (the later negation re-includes the path).
C1_NegationReincludes ==
  \A i \in 1..Len(calls) :
    (/\ Fulfilled(i)
     /\ gitignore = GitignoreNegation
     /\ {<<"b","u","i","l","d","/","i","m","p","o","r","t","a","n","t",".","j","s">>, <<"b","u","i","l","d","/","v","e","n","d","o","r",".","j","s">>} \subseteq tree)
    => /\ Join(ProjectRoot, <<"b","u","i","l","d","/","i","m","p","o","r","t","a","n","t",".","j","s">>) \in Returned(i)
       /\ Join(ProjectRoot, <<"b","u","i","l","d","/","v","e","n","d","o","r",".","j","s">>) \notin Returned(i)

\* a directory called name lies on the way to the file
UnderDirectory(path, name) ==
  LET ss == Split(path, "/") IN \E k \in 1..(Len(ss) - 1) : ss[k] = name

IgnoreFilesAbsentOrEmpty ==
  /\ gitignore \in {AbsentFile, TextFile(<<>>)}
  /\ initrepoignore \in {AbsentFile, TextFile(<<>>)}

\* C2: with both ignore files absent or empty, getRelevantFiles never
\* returns a path that lies under a node_modules directory.
C2_NoDependencyPaths ==
  \A i \in 1..Len(calls) :
    (Fulfilled(i) /\ IgnoreFilesAbsentOrEmpty)
    => \A f \in tree :
         UnderDirectory(f, <<"n","o","d","e","_","m","o","d","u","l","e","s">>) => Join(ProjectRoot, f) \notin Returned(i)

\* the extension as the claim words it: the lowercased suffix after the last
\* '.' of the file name, empty when the name has no '.'
FilenameSuffix(path) ==
  LET name == Basename(path)
      dot  == LastIndexOf(name, ".")
  IN  IF dot = 0 THEN <<>> ELSE ToLowerCase(SubSeq(name, dot + 1, Len(name)))

\* C3: getRelevantFiles retains an enumerated file if and only if the
\* extension of its file name is in the allow-list or its lowercased path
\* contains a manifest marker.
C3_RetainedIffSourceLike ==
  \A i \in 1..Len(calls) :
    Fulfilled(i) =>
      \A f \in Range(calls[i].globbed.value) :
        Join(ProjectRoot, f) \in Returned(i)
        <=> \/ FilenameSuffix(f) \in Range(SOURCE_FILE_EXTENSIONS)
            \/ \E m \in Range(ManifestMarkers) : Includes(ToLowerCase(f), m)

\* C4: two getRelevantFiles calls on the unchanged project that both succeed
\* return the same ordered list of paths.
C4_SuccessiveRunsIdentical ==
  \A i, j \in 1..Len(calls) :
    (Fulfilled(i) /\ Fulfilled(j)) => calls[i].result.value = calls[j].result.value

\* C5: when enumeration fails, getRelevantFiles rejects with the message
\* 'Failed to scan files: ' followed by the cause's message, and returns no
\* path.
C5_EnumerationFailureWrapped ==
  \A i \in 1..Len(calls) :
    calls[i].globbed.status = "rejected"
    => /\ calls[i].result.status = "rejected"
       /\ calls[i].result.message = "Failed to scan files: " \o calls[i].globbed.message
       /\ calls[i].result.value = <<>>

\* enumeration failed on a project that holds source files
C5_Witness ==
  \E i \in 1..Len(calls) :
    /\ calls[i].globbed.status = "rejected"
    /\ calls[i].globbed.message = "Permission denied"
    /\ calls[i].result.status = "rejected"
    /\ <<"s","r","c","/","a","p","p",".","j","s">> \in tree

-----------------------------------------------------------------------------
(* readFiles *)

\* the ASCII characters of code 32 to 95 and of code 97 to 126
AsciiLow == <<" ","!","\"","#","$","%","&","'","(",")","*","+",",","-",".","/","0","1","2","3","4","5","6","7","8","9",":",";","<","=",">","?","@","A","B","C","D","E","F","G","H","I","J","K","L","M","N","O","P","Q","R","S","T","U","V","W","X","Y","Z","[","\\","]","^","_">>
AsciiHigh == <<"a","b","c","d","e","f","g","h","i","j","k","l","m","n","o","p","q","r","s","t","u","v","w","x","y","z","{","|","}","~">>

\* String.fromCharCode(code) for code < 128; a character that cannot be
\* written here is named by its code
AsciiChar(code) ==
  IF code = 10 THEN "\n"
  ELSE IF code = 9 THEN "\t"
  ELSE IF code = 13 THEN "\r"
  ELSE IF code >= 32 /\ code <= 95 THEN AsciiLow[code - 31]
  ELSE IF code >= 97 /\ code <= 126 THEN AsciiHigh[code - 96]
  ELSE "U+00" \o ToString(code)

\* buffer.toString('utf-8'): decoding never throws; a byte that is no part
\* of a well-formed sequence becomes U+FFFD.  Of the multi-byte sequences
\* only C3 A9 (U+00E9) is modelled.
RECURSIVE Utf8Decode(_)
Utf8Decode(bytes) ==
  IF bytes = <<>> THEN <<>>
  ELSE IF Head(bytes) < 128
       THEN <<AsciiChar(Head(bytes))>> \o Utf8Decode(Tail(bytes))
  ELSE IF Len(bytes) >= 2 /\ bytes[1] = 195 /\ bytes[2] = 169
       THEN <<"U+00E9">> \o Utf8Decode(SubSeq(bytes, 3, Len(bytes)))
  ELSE <<"U+FFFD">> \o Utf8Decode(Tail(bytes))

\* A file as readFileSync(path, 'utf-8') finds it: it throws an error with
\* message error, or (error = "") it returns the decoded bytes.
MissingFile == [error |-> "ENOENT: no such file or directory", bytes |-> <<>>]
DeniedFile == [error |-> "EACCES: permission denied", bytes |-> <<>>]
\* a\nb
TextBytes == [error |-> "", bytes |-> <<97, 10, 98>>]
\* FF FE 61: the first two bytes are not UTF-8
UndecodableBytes == [error |-> "", bytes |-> <<255, 254, 97>>]

DiskFileStates == {MissingFile, DeniedFile, TextBytes, UndecodableBytes}

\* /proj/a.js, /proj/src/b.js, /other/c.js
ReadPathUniverse == {<<"/","p","r","o","j","/","a",".","j","s">>, <<"/","p","r","o","j","/","s","r","c","/","b",".","j","s">>, <<"/","o","t","h","e","r","/","c",".","j","s">>}

\* the for loop of readFiles from its current element on, with break in
\* the catch block
RECURSIVE readFilesLoop_breakOnError(_, _, _, _)
readFilesLoop_breakOnError(paths, onDisk, projectRoot, acc) ==
  IF paths = <<>> THEN acc
  ELSE LET filePath == Head(paths)
           file     == onDisk[filePath]
       IN  IF file.error = ""
           THEN readFilesLoop_breakOnError(Tail(paths), onDisk, projectRoot,
                  [acc EXCEPT !.fileContents =
                     Append(@, [path         |-> filePath,
                                relativePath |-> Relative(projectRoot, filePath),
                                content      |-> Utf8Decode(file.bytes)])])
           ELSE [acc EXCEPT !.warnings = Append(@, [file |-> filePath, message |-> file.error])]

\* the for loop of readFiles from its current element on
RECURSIVE readFilesLoop(_, _, _, _)
readFilesLoop(paths, onDisk, projectRoot, acc) ==
  IF paths = <<>> THEN acc
  ELSE LET filePath == Head(paths)
           file     == onDisk[filePath]
       IN  readFilesLoop(Tail(paths), onDisk, projectRoot,
             IF file.error = ""
             THEN [acc EXCEPT !.fileContents =
                     Append(@, [path         |-> filePath,
                                relativePath |-> Relative(projectRoot, filePath),
                                content      |-> Utf8Decode(file.bytes)])]
             ELSE [acc EXCEPT !.warnings =
                     Append(@, [file |-> filePath, message |-> file.error])])

\* readFiles leaving its loop at the first file that cannot be read
readFiles_breakOnError(paths, onDisk, projectRoot) ==
  readFilesLoop_breakOnError(paths, onDisk, projectRoot,
                [status |-> "fulfilled", fileContents |-> <<>>, warnings |-> <<>>])

\* readFiles(paths) with process.cwd() = projectRoot: the value the promise
\* is fulfilled with, and the warnings printed
readFiles(paths, onDisk, projectRoot) ==
  readFilesLoop(paths, onDisk, projectRoot,
                [status |-> "fulfilled", fileContents |-> <<>>, warnings |-> <<>>])

DiscoveryIdle ==
  tree = {} /\ gitignore = AbsentFile /\ initrepoignore = AbsentFile /\ calls = <<>>

InitRead ==
  /\ DiscoveryIdle
  /\ TreeIdle
  /\ ExportIdle
  /\ RunIdle
  /\ TechIdle
  /\ ParseIdle
  /\ ScaffoldIdle
  /\ ExtensionIdle
  /\ filePaths \in UNION {[1..n -> ReadPathUniverse] : n \in 0..MaxPaths}
  /\ disk \in [ReadPathUniverse -> DiskFileStates]
  /\ readResult = Pending

ReadFiles ==
  /\ readResult = Pending
  /\ readResult' = readFiles(filePaths, disk, ProjectRoot)
  /\ UNCHANGED <<filePaths, disk, discoveryVars, treeVars, exportVars, runVars, techVars, parseVars, scaffoldVars, extensionVars>>

NextRead == ReadFiles

SpecRead == InitRead /\ [][NextRead]_vars

-----------------------------------------------------------------------------
(* Claims about readFiles *)

CanBeRead(path) == disk[path].error = ""

\* C6: readFiles never throws; it returns exactly one FileRecord per path
\* that could be read, in input order, and each path that could not be read
\* is left out with a warning and does not stop the paths after it.
C6_OneRecordPerReadablePath ==
  readResult # Pending =>
    /\ readResult.status = "fulfilled"
    /\ [i \in 1..Len(readResult.fileContents) |-> readResult.fileContents[i].path]
         = SelectSeq(filePaths, CanBeRead)
    /\ [i \in 1..Len(readResult.warnings) |-> readResult.warnings[i].file]
         = SelectSeq(filePaths, LAMBDA p : ~CanBeRead(p))
    /\ \A i \in 1..Len(readResult.fileContents) :
         LET r == readResult.fileContents[i] IN
         /\ r.relativePath = Relative(ProjectRoot, r.path)
         /\ r.content = Utf8Decode(disk[r.path].bytes)

\* [a.js, b.js, c.js] with b.js missing: two records, a.js then c.js
C6_Witness ==
  /\ filePaths = <<<<"/","p","r","o","j","/","a",".","j","s">>, <<"/","p","r","o","j","/","s","r","c","/","b",".","j","s">>, <<"/","o","t","h","e","r","/","c",".","j","s">>>>
  /\ disk[<<"/","p","r","o","j","/","a",".","j","s">>] = TextBytes
  /\ disk[<<"/","p","r","o","j","/","s","r","c","/","b",".","j","s">>] = MissingFile
  /\ disk[<<"/","o","t","h","e","r","/","c",".","j","s">>] = TextBytes
  /\ readResult # Pending
  /\ [i \in 1..Len(readResult.fileContents) |-> readResult.fileContents[i].relativePath]
       = <<<<"a",".","j","s">>, <<".",".","/","o","t","h","e","r","/","c",".","j","s">>>>
  /\ Len(readResult.warnings) = 1

-----------------------------------------------------------------------------
(* generate-project-structure.js: buildFileTree and sortTreeChildren *)

\* a.localeCompare(b) in the default (root) collation, for names made of
\* letters, digits, '_', '-' and '.': punctuation sorts before digits,
\* digits before letters; letters are first compared without regard to
\* case, and only names equal up to case are ordered by case, lower case
\* first.
CollationOrder == <<"_","-",".","0","1","2","3","4","5","6","7","8","9","a","b","c","d","e","f","g","h","i","j","k","l","m","n","o","p","q","r","s","t","u","v","w","x","y","z">>

PrimaryWeight(c) ==
  LET l == LowerChar(c) IN
  IF \E i \in 1..Len(CollationOrder) : CollationOrder[i] = l
  THEN CHOOSE i \in 1..Len(CollationOrder) : CollationOrder[i] = l
  ELSE 0

\* the first position at which two sequences of equal length differ, or 0
FirstDifference(x, y) ==
  IF \E i \in 1..Len(x) : x[i] # y[i]
  THEN CHOOSE i \in 1..Len(x) : x[i] # y[i] /\ \A j \in 1..(i - 1) : x[j] = y[j]
  ELSE 0

LocaleCompare(a, b) ==
  LET n  == IF Len(a) < Len(b) THEN Len(a) ELSE Len(b)
      pa == [i \in 1..n |-> PrimaryWeight(a[i])]
      pb == [i \in 1..n |-> PrimaryWeight(b[i])]
      d  == FirstDifference(pa, pb)
  IN  IF d # 0 THEN (IF pa[d] < pb[d] THEN -1 ELSE 1)
      ELSE IF Len(a) # Len(b) THEN (IF Len(a) < Len(b) THEN -1 ELSE 1)
      ELSE LET c == FirstDifference(a, b) IN
           IF c = 0 THEN 0 ELSE IF a[c] = LowerChar(a[c]) THEN -1 ELSE 1

\* the node children.set(part, {...}) stores; a file's children are null,
\* written <<>> here (the type field tells the two apart)
\* NewNode making every node a directory, the last segment's included
NewNode_directoryOnly(part, isFile) ==
  [name     |-> part,
   type     |-> "directory",
   children |-> <<>>,
   size     |-> 0]

NewNode(part, isFile) ==
  [name     |-> part,
   type     |-> IF isFile THEN "file" ELSE "directory",
   children |-> <<>>,
   size     |-> 0]

\* the Map of children keeps insertion order; 0 when has(part) is false
ChildIndex(node, part) ==
  IF \E i \in 1..Len(node.children) : node.children[i].name = part
  THEN CHOOSE i \in 1..Len(node.children) : node.children[i].name = part
  ELSE 0

\* the inner for loop of buildFileTree from part i on, with current as it
\* stands: the subtree of current afterwards, and whether the loop threw
\* (current.children.has on a file node, whose children are null)
RECURSIVE insertParts(_, _)
insertParts(current, parts) ==
  IF parts = <<>> THEN [node |-> current, threw |-> FALSE]
  ELSE IF current.type = "file" THEN [node |-> current, threw |-> TRUE]
  ELSE LET part     == Head(parts)
           isFile   == Len(parts) = 1
           withPart == IF ChildIndex(current, part) = 0
                       THEN [current EXCEPT !.children = Append(@, NewNode(part, isFile))]
                       ELSE current
           k        == ChildIndex(withPart, part)
       IN  IF isFile THEN [node |-> withPart, threw |-> FALSE]
           ELSE LET below == insertParts(withPart.children[k], Tail(parts))
                IN  [node  |-> [withPart EXCEPT !.children[k] = below.node],
                     threw |-> below.threw]

\* the outer for loop of buildFileTree from the current path on
RECURSIVE insertPaths(_, _)
insertPaths(remaining, acc) ==
  IF remaining = <<>> \/ acc.threw THEN acc
  ELSE insertPaths(Tail(remaining),
         insertParts(acc.node,
                     SelectSeq(Split(Head(remaining), "/"), LAMBDA part : part # <<>>)))

\* the comparator of entries.sort in sortTreeChildren
compareEntries(a, b) ==
  IF a.type # b.type
  THEN (IF a.type = "directory" THEN -1 ELSE 1)
  ELSE LocaleCompare(a.name, b.name)

\* Array.prototype.sort is stable: an entry goes after the entries that do
\* not sort after it
RECURSIVE sortEntries(_)
sortEntries(entries) ==
  IF entries = <<>> THEN <<>>
  ELSE LET e      == Last(entries)
           sorted == sortEntries(SubSeq(entries, 1, Len(entries) - 1))
           k      == Cardinality({i \in 1..Len(sorted) : compareEntries(sorted[i], e) <= 0})
       IN  SubSeq(sorted, 1, k) \o <<e>> \o SubSeq(sorted, k + 1, Len(sorted))

\* sortTreeChildren sorting the children of the node it is given only
sortTreeChildren_noRecursion(node) ==
  IF node.type = "file" THEN node
  ELSE [node EXCEPT !.children = sortEntries(@)]

RECURSIVE sortTreeChildren(_)
sortTreeChildren(node) ==
  IF node.type = "file" THEN node
  ELSE LET sorted == sortEntries(node.children)
       IN  [node EXCEPT !.children = [i \in 1..Len(sorted) |-> sortTreeChildren(sorted[i])]]

RootNode == [name |-> <<>>, type |-> "directory", children |-> <<>>, size |-> 0]

\* buildFileTree(paths): the tree it returns, or that it threw
buildFileTree(pathList) ==
  LET built == insertPaths(pathList, [node |-> RootNode, threw |-> FALSE])
  IN  IF built.threw
      THEN [status |-> "threw", tree |-> RootNode]
      ELSE [status |-> "returned", tree |-> sortTreeChildren(built.node)]

\* the string literals of generateNodeString, character by character as
\* the source file holds them
LastConnector ==
  <<"U+00E2", "U+201D", "U+201D", "U+00E2", "U+201D", "U+20AC", "U+00E2", "U+201D", "U+20AC", " ">>

NonLastConnector ==
  <<"U+00E2", "U+201D", "U+0153", "U+00E2", "U+201D", "U+20AC", "U+00E2", "U+201D", "U+20AC", " ">>

DirectorySymbol == <<"U+00F0", "U+0178", "U+201C", " ">>

FileSymbol == <<"U+00F0", "U+0178", "U+201C", "U+201E", " ">>

BlankSegment == <<" ", " ", " ", " ">>

BarSegment == <<"U+00E2", "U+201D", "U+201A", " ", " ", " ">>

RECURSIVE generateNodeString(_, _, _)
generateNodeString(node, prefix, isLast) ==
  LET connector  == IF isLast THEN LastConnector ELSE NonLastConnector
      nodeSymbol == IF node.type = "directory" THEN DirectorySymbol ELSE FileSymbol
      line       == prefix \o connector \o nodeSymbol \o node.name
                      \o (IF node.type = "directory" THEN <<"/">> ELSE <<>>) \o <<"\n">>
      nextPrefix == prefix \o (IF isLast THEN BlankSegment ELSE BarSegment)
      entries    == node.children
      RECURSIVE forEach(_)
      forEach(index) ==
        IF index > Len(entries) THEN <<>>
        ELSE generateNodeString(entries[index], nextPrefix, index = Len(entries))
               \o forEach(index + 1)
  IN  line \o forEach(1)

\* generateTreeString giving no entry of the root the last-child connector
generateTreeString_noLast(root, rootName) ==
  LET entries == root.children
      RECURSIVE forEach(_)
      forEach(index) ==
        IF index > Len(entries) THEN <<>>
        ELSE generateNodeString(entries[index], <<>>, FALSE) \o forEach(index + 1)
  IN  rootName \o <<"/","\n">> \o forEach(1)

generateTreeString(root, rootName) ==
  LET entries == root.children
      RECURSIVE forEach(_)
      forEach(index) ==
        IF index > Len(entries) THEN <<>>
        ELSE generateNodeString(entries[index], <<>>, index = Len(entries))
               \o forEach(index + 1)
  IN  rootName \o <<"/","\n">> \o forEach(1)

\* b.js, B.js, a.js, src/z.js, src/lib/x.js, Lib/y.js, and src as a file
TreePathUniverse == {
  <<"b",".","j","s">>, <<"B",".","j","s">>, <<"a",".","j","s">>, <<"s","r","c","/","z",".","j","s">>, <<"s","r","c","/","l","i","b","/","x",".","j","s">>, <<"L","i","b","/","y",".","j","s">>, <<"s","r","c">> }

InitTree ==
  /\ DiscoveryIdle
  /\ ReadIdle
  /\ ExportIdle
  /\ RunIdle
  /\ TechIdle
  /\ ParseIdle
  /\ ScaffoldIdle
  /\ ExtensionIdle
  /\ relativePaths \in UNION {[1..n -> TreePathUniverse] : n \in 0..MaxTreePaths}
  /\ fileTree = Pending
  /\ fileStatistics = Pending
  /\ treeString = Pending
  /\ projectStructure = Pending

BuildFileTree ==
  /\ fileTree = Pending
  /\ fileTree' = buildFileTree(relativePaths)
  /\ UNCHANGED <<relativePaths, fileStatistics, treeString, projectStructure, discoveryVars, readVars, exportVars, runVars, techVars, parseVars, scaffoldVars, extensionVars>>

\* generateProjectStructure renders the tree it has built, under the
\* basename of the project root
GenerateTreeString ==
  /\ fileTree # Pending
  /\ fileTree.status = "returned"
  /\ treeString = Pending
  /\ treeString' = [status |-> "returned",
                    text   |-> generateTreeString(fileTree.tree, Basename(ProjectRoot))]
  /\ UNCHANGED <<relativePaths, fileTree, fileStatistics, projectStructure, discoveryVars, readVars, exportVars, runVars, techVars, parseVars, scaffoldVars, extensionVars>>

NextTree == BuildFileTree \/ GenerateTreeString

SpecTree == InitTree /\ [][NextTree]_vars

-----------------------------------------------------------------------------
(* Claims about the tree *)

\* the children of this one node: no file before a directory, and
\* neighbours of one kind in ascending localeCompare order
ChildrenOrdered(node) ==
  \A i \in 1..(Len(node.children) - 1) :
    LET a == node.children[i]
        b == node.children[i + 1]
    IN  /\ (a.type = "file" => b.type = "file")
        /\ (a.type = b.type => LocaleCompare(a.name, b.name) < 0)

RECURSIVE EveryDirectoryOrdered(_)
EveryDirectoryOrdered(node) ==
  /\ ChildrenOrdered(node)
  /\ \A i \in 1..Len(node.children) : EveryDirectoryOrdered(node.children[i])

\* C8: in the tree buildFileTree returns, every directory's children are
\* ordered directories first, then files, each kind sorted by name (in the
\* locale-aware order of localeCompare).
C8_TreeOrdered ==
  (fileTree # Pending /\ fileTree.status = "returned") => EveryDirectoryOrdered(fileTree.tree)

ChildNames(node) == [i \in 1..Len(node.children) |-> node.children[i].name]

\* files inserted before directories and in descending name order, on two
\* levels: the root lists src/ before a.js before B.js, src lists lib/ before z.js
C8_Witness ==
  /\ relativePaths = <<<<"B",".","j","s">>, <<"s","r","c","/","z",".","j","s">>, <<"s","r","c","/","l","i","b","/","x",".","j","s">>>>
  /\ fileTree # Pending
  /\ fileTree.status = "returned"
  /\ ChildNames(fileTree.tree) = <<<<"s","r","c">>, <<"B",".","j","s">>>>
  /\ ChildNames(fileTree.tree.children[1]) = <<<<"l","i","b">>, <<"z",".","j","s">>>>

Segments(path) == SelectSeq(Split(path, "/"), LAMBDA part : part # <<>>)

IsProperPrefix(p, q) == Len(p) < Len(q) /\ SubSeq(q, 1, Len(p)) = p

NoProperPrefix(pathList) ==
  \A i, j \in 1..Len(pathList) :
    ~IsProperPrefix(Segments(pathList[i]), Segments(pathList[j]))

\* the names from below node down to each node of the given kind
RECURSIVE PathsToKind(_, _)
PathsToKind(node, kind) ==
  UNION {{<<node.children[i].name>> \o rest : rest \in PathsToKind(node.children[i], kind)}
           \cup (IF node.children[i].type = kind THEN {<<node.children[i].name>>} ELSE {})
         : i \in 1..Len(node.children)}

RECURSIVE NodeCount(_)
NodeCount(node) ==
  LET below == [i \in 1..Len(node.children) |-> NodeCount(node.children[i])]
      RECURSIVE sum(_)
      sum(k) == IF k = 0 THEN 0 ELSE below[k] + sum(k - 1)
  IN  1 + sum(Len(node.children))

\* file nodes have no children, directory nodes have some, and no two
\* children of a node share a name
RECURSIVE WellFormedTree(_)
WellFormedTree(node) ==
  /\ node.type \in {"file", "directory"}
  /\ (node.type = "file" => node.children = <<>>)
  /\ (node.type = "directory" /\ node.name # <<>> => node.children # <<>>)
  /\ \A i, j \in 1..Len(node.children) :
        node.children[i].name = node.children[j].name => i = j
  /\ \A i \in 1..Len(node.children) : WellFormedTree(node.children[i])

\* the paths in the order of their first occurrence, each once
RECURSIVE Distinct(_)
Distinct(pathList) ==
  IF pathList = <<>> THEN <<>>
  ELSE LET front == SubSeq(pathList, 1, Len(pathList) - 1)
       IN  IF \E i \in 1..Len(front) : front[i] = Last(pathList)
           THEN Distinct(front)
           ELSE Append(Distinct(front), Last(pathList))

\* C25: for a list of paths none of which is a proper segment-prefix of
\* another, buildFileTree returns a tree whose file nodes are leaves that
\* correspond one-to-one with the distinct paths (the names from the root
\* down are the path's segments), whose other nodes are directories with
\* children, one per proper prefix of a path, and the tree is the tree of
\* the list without its repetitions.
C25_LeavesAreDistinctPaths ==
  (fileTree # Pending /\ NoProperPrefix(relativePaths)) =>
    LET segs     == {Segments(relativePaths[i]) : i \in 1..Len(relativePaths)}
        prefixes == UNION {{SubSeq(p, 1, n) : n \in 1..(Len(p) - 1)} : p \in segs}
    IN  /\ fileTree.status = "returned"
        /\ WellFormedTree(fileTree.tree)
        /\ PathsToKind(fileTree.tree, "file") = segs
        /\ PathsToKind(fileTree.tree, "directory") = prefixes
        /\ NodeCount(fileTree.tree) = 1 + Cardinality(segs) + Cardinality(prefixes)
        /\ fileTree = buildFileTree(Distinct(relativePaths))

\* src/z.js given twice around src/lib/x.js: two file leaves, two directories
C25_Witness ==
  /\ relativePaths = <<<<"s","r","c","/","z",".","j","s">>, <<"s","r","c","/","l","i","b","/","x",".","j","s">>, <<"s","r","c","/","z",".","j","s">>>>
  /\ fileTree # Pending
  /\ fileTree.status = "returned"
  /\ NodeCount(fileTree.tree) = 5
  /\ ChildNames(fileTree.tree.children[1]) = <<<<"l","i","b">>, <<"z",".","j","s">>>>

\* the positions of the nodes below node, each as the child indexes that
\* lead to it
RECURSIVE IndexPaths(_)
IndexPaths(node) ==
  UNION {{<<i>>} \cup {<<i>> \o rest : rest \in IndexPaths(node.children[i])}
         : i \in 1..Len(node.children)}

RECURSIVE NodeAt(_, _)
NodeAt(node, position) ==
  IF position = <<>> THEN node
  ELSE NodeAt(node.children[Head(position)], Tail(position))

\* q comes before p in depth-first child order
ComesBefore(q, p) ==
  \/ IsProperPrefix(q, p)
  \/ \E k \in 1..Len(q) :
        /\ k <= Len(p)
        /\ SubSeq(q, 1, k - 1) = SubSeq(p, 1, k - 1)
        /\ q[k] < p[k]

IsLastChild(root, position) ==
  Last(position) = Len(NodeAt(root, SubSeq(position, 1, Len(position) - 1)).children)

\* the line of the node at position: one segment per ancestor below the
\* root, the connector, the symbol of the kind, the name, '/' for a directory
ExpectedLine(root, position) ==
  LET node == NodeAt(root, position)
      RECURSIVE segments(_)
      segments(k) ==
        IF k >= Len(position) THEN <<>>
        ELSE (IF IsLastChild(root, SubSeq(position, 1, k)) THEN BlankSegment ELSE BarSegment)
               \o segments(k + 1)
  IN  segments(1)
        \o (IF IsLastChild(root, position) THEN LastConnector ELSE NonLastConnector)
        \o (IF node.type = "directory" THEN DirectorySymbol ELSE FileSymbol)
        \o node.name
        \o (IF node.type = "directory" THEN <<"/">> ELSE <<>>)

\* C26: the rendered tree is the root label line (the basename of the
\* project root and '/') followed by one line per node of the tree in
\* depth-first child order; a directory's name is followed by '/'; the last
\* child of a directory has the last-child connector and every other child
\* the other connector; before the connector comes one segment per ancestor
\* below the root, the bar segment for an ancestor that is not the last
\* child of its parent and four blanks for one that is.
C26_OneLinePerNode ==
  treeString # Pending =>
    LET root      == fileTree.tree
        lines     == Split(treeString.text, "\n")
        positions == IndexPaths(root)
    IN  /\ Len(lines) = Cardinality(positions) + 2
        /\ lines[1] = Basename(ProjectRoot) \o <<"/">>
        /\ Last(lines) = <<>>
        /\ LastConnector # NonLastConnector
        /\ BarSegment # BlankSegment
        /\ \A p \in positions :
              lines[2 + Cardinality({q \in positions : ComesBefore(q, p)})]
                = ExpectedLine(root, p)

\* proj/ with src/ (lib/ with x.js, then z.js) and B.js: x.js is the last
\* child of lib, which is not the last child of src, which is not the last
\* child of the root
C26_Witness ==
  /\ relativePaths = <<<<"B",".","j","s">>, <<"s","r","c","/","z",".","j","s">>, <<"s","r","c","/","l","i","b","/","x",".","j","s">>>>
  /\ treeString # Pending
  /\ Split(treeString.text, "\n") =
       << <<"p","r","o","j","/">>,
          NonLastConnector \o DirectorySymbol \o <<"s","r","c","/">>,
          BarSegment \o NonLastConnector \o DirectorySymbol \o <<"l","i","b","/">>,
          BarSegment \o BarSegment \o LastConnector \o FileSymbol \o <<"x",".","j","s">>,
          BarSegment \o LastConnector \o FileSymbol \o <<"z",".","j","s">>,
          LastConnector \o FileSymbol \o <<"B",".","j","s">>,
          <<>> >>

-----------------------------------------------------------------------------
(* generate-full-codebase.js *)

\* A JavaScript number that a division produced: a finite value, or NaN
\* (0 / 0), or Infinity (n / 0 with n > 0).
Finite(n) == [kind |-> "finite", value |-> n]
NaN == [kind |-> "NaN", value |-> 0]
Infinity == [kind |-> "Infinity", value |-> 0]

\* the quotient cut off, not rounded
MathRoundOfQuotient_floor(a, b) ==
  IF b = 0 THEN (IF a = 0 THEN NaN ELSE Infinity)
  ELSE Finite(a \div b)

\* Math.round(a / b) for integers a >= 0 and b >= 0: the nearest integer,
\* a half rounded up; Math.round(NaN) is NaN
MathRoundOfQuotient(a, b) ==
  IF b = 0 THEN (IF a = 0 THEN NaN ELSE Infinity)
  ELSE Finite((2 * a + b) \div (2 * b))

\* Buffer.byteLength(content, 'utf8'): U+00E9 takes two bytes, U+FFFD three
RECURSIVE Utf8ByteLength(_)
Utf8ByteLength(content) ==
  IF content = <<>> THEN 0
  ELSE (IF Head(content) = "U+00E9" THEN 2
        ELSE IF Head(content) = "U+FFFD" THEN 3
        ELSE 1) + Utf8ByteLength(Tail(content))

\* a line count that leaves out empty segments
LineCount_nonEmptySegments(content) ==
  Len(SelectSeq(Split(content, "\n"), LAMBDA segment : segment # <<>>))

\* content.split('\n').length
LineCount(content) == Len(Split(content, "\n"))

\* getFileExtension of generate-full-codebase.js
\* (lastIndexOf is one-based here: 0 for -1, 1 for 0)
getFileExtension(path) ==
  LET bySlash     == Last(Split(path, "/"))
      byBackslash == Last(Split(path, "\\"))
      filename    == IF bySlash # <<>> THEN bySlash
                     ELSE IF byBackslash # <<>> THEN byBackslash
                     ELSE <<>>
      lastDotIndex == LastIndexOf(filename, ".")
  IN  IF lastDotIndex = 0 \/ lastDotIndex = 1 THEN <<>>
      ELSE ToLowerCase(SubSeq(filename, lastDotIndex + 1, Len(filename)))

\* the for loop of generateStatistics
RECURSIVE SumOver(_, _)
SumOver(records, field) ==
  IF records = <<>> THEN 0
  ELSE (CASE field = "lines"      -> LineCount(Head(records).content)
          [] field = "characters" -> Len(Head(records).content)
          [] field = "bytes"      -> Utf8ByteLength(Head(records).content))
       + SumOver(Tail(records), field)

generateStatistics(records) ==
  LET totalLines      == SumOver(records, "lines")
      totalCharacters == SumOver(records, "characters")
      totalSize       == SumOver(records, "bytes")
  IN  [totalFiles               |-> Len(records),
       totalLines               |-> totalLines,
       totalCharacters          |-> totalCharacters,
       totalSizeBytes           |-> totalSize,
       averageLinesPerFile      |-> MathRoundOfQuotient(totalLines, Len(records)),
       averageCharactersPerFile |-> MathRoundOfQuotient(totalCharacters, Len(records))]

\* one pass of the for loop of generateExtensionSummary: extensionStats is
\* the Map, in insertion order, as a sequence of [ext, count, totalLines,
\* totalCharacters]
addToExtensionStats(extensionStats, file) ==
  LET ext        == getFileExtension(file.relativePath)
      lines      == LineCount(file.content)
      characters == Len(file.content)
      present    == \E i \in 1..Len(extensionStats) : extensionStats[i].ext = ext
      withExt    == IF present THEN extensionStats
                    ELSE Append(extensionStats,
                           [ext |-> ext, count |-> 0, totalLines |-> 0, totalCharacters |-> 0])
      k          == CHOOSE i \in 1..Len(withExt) : withExt[i].ext = ext
  IN  [withExt EXCEPT ![k] = [ext             |-> ext,
                              count           |-> @.count + 1,
                              totalLines      |-> @.totalLines + lines,
                              totalCharacters |-> @.totalCharacters + characters]]

RECURSIVE collectExtensionStats(_, _)
collectExtensionStats(records, extensionStats) ==
  IF records = <<>> THEN extensionStats
  ELSE collectExtensionStats(Tail(records), addToExtensionStats(extensionStats, Head(records)))

\* a sort by descending count that puts a later entry before the earlier
\* entries of the same count
RECURSIVE sortByCountDescending_unstable(_)
sortByCountDescending_unstable(extensions) ==
  IF extensions = <<>> THEN <<>>
  ELSE LET e      == Last(extensions)
           sorted == sortByCountDescending_unstable(SubSeq(extensions, 1, Len(extensions) - 1))
           k      == Cardinality({i \in 1..Len(sorted) : e.count - sorted[i].count < 0})
       IN  SubSeq(sorted, 1, k) \o <<e>> \o SubSeq(sorted, k + 1, Len(sorted))

\* extensions.sort((a, b) => b.count - a.count), a stable sort
RECURSIVE sortByCountDescending(_)
sortByCountDescending(extensions) ==
  IF extensions = <<>> THEN <<>>
  ELSE LET e      == Last(extensions)
           sorted == sortByCountDescending(SubSeq(extensions, 1, Len(extensions) - 1))
           k      == Cardinality({i \in 1..Len(sorted) : e.count - sorted[i].count <= 0})
       IN  SubSeq(sorted, 1, k) \o <<e>> \o SubSeq(sorted, k + 1, Len(sorted))

\* generateExtensionSummary counting the lines of the first file of each
\* extension only
generateExtensionSummary_firstFileLines(records) ==
  LET stats == collectExtensionStats(records, <<>>)
      first(ext) == CHOOSE i \in 1..Len(records) :
                      /\ getFileExtension(records[i].relativePath) = ext
                      /\ \A j \in 1..(i - 1) : getFileExtension(records[j].relativePath) # ext
  IN  sortByCountDescending(
        [i \in 1..Len(stats) |->
           [name                     |-> IF stats[i].ext # <<>> THEN stats[i].ext
                                         ELSE <<"n","o","-","e","x","t","e","n","s","i","o","n">>,
            count                    |-> stats[i].count,
            totalLines               |-> LineCount(records[first(stats[i].ext)].content),
            totalCharacters          |-> stats[i].totalCharacters,
            averageLinesPerFile      |->
              MathRoundOfQuotient(stats[i].totalLines, stats[i].count),
            averageCharactersPerFile |->
              MathRoundOfQuotient(stats[i].totalCharacters, stats[i].count)]])

generateExtensionSummary(records) ==
  LET stats == collectExtensionStats(records, <<>>)
  IN  sortByCountDescending(
        [i \in 1..Len(stats) |->
           [name                     |-> IF stats[i].ext # <<>> THEN stats[i].ext
                                         ELSE <<"n","o","-","e","x","t","e","n","s","i","o","n">>,
            count                    |-> stats[i].count,
            totalLines               |-> stats[i].totalLines,
            totalCharacters          |-> stats[i].totalCharacters,
            averageLinesPerFile      |->
              MathRoundOfQuotient(stats[i].totalLines, stats[i].count),
            averageCharactersPerFile |->
              MathRoundOfQuotient(stats[i].totalCharacters, stats[i].count)]])

\* the xmlData object generateFullCodebase builds (the generated
\* timestamp left out)
generateFullCodebase(records) ==
  [totalFiles |-> Len(records),
   generator  |-> "initrepo-cli",
   version    |-> "1.0.0",
   files      |-> [i \in 1..Len(records) |->
                    [path      |-> records[i].relativePath,
                     size      |-> Len(records[i].content),
                     lines     |-> LineCount(records[i].content),
                     extension |-> getFileExtension(records[i].relativePath),
                     content   |-> records[i].content]],
   summary    |-> [statistics |-> generateStatistics(records),
                   extensions |-> generateExtensionSummary(records)]]

\* XMLBuilder.build with cdataPropName '#cdata': the value of a '#cdata'
\* property is written between the CDATA delimiters as it is, with no
\* escaping and no splitting
buildTextValNode(val) == <<"<","!","[","C","D","A","T","A","[">> \o val \o <<"]","]",">">>

\* the content element of each file entry of the document, in order
\* (indentation left out)
build(data) ==
  [i \in 1..Len(data.files) |->
     <<"<","c","o","n","t","e","n","t",">">> \o buildTextValNode(data.files[i].content) \o <<"<","/","c","o","n","t","e","n","t",">">>]

\* the first index at or after from where pattern occurs in s, 0 if none
IndexOf(s, pattern, from) ==
  LET hits == {i \in from..(Len(s) - Len(pattern) + 1) :
                 SubSeq(s, i, i + Len(pattern) - 1) = pattern}
  IN  IF hits = {} THEN 0 ELSE CHOOSE i \in hits : \A j \in hits : i <= j

\* XMLParser.parse of one content element with cdataPropName '#cdata':
\* the CDATA section ends at the first "]]>" after its opening delimiter;
\* what follows up to the closing tag is text
parseContentElement(element) ==
  LET open       == Len(<<"<","c","o","n","t","e","n","t",">">>) + Len(<<"<","!","[","C","D","A","T","A","[">>) + 1
      closeIndex == IndexOf(element, <<"]","]",">">>, open)
      endTag     == Len(element) - Len(<<"<","/","c","o","n","t","e","n","t",">">>)
  IN  [cdata |-> SubSeq(element, open, closeIndex - 1),
       text  |-> SubSeq(element, closeIndex + 3, endTag)]

\* XMLParser.parse of the files element of the written document (each
\* content element inside its file element, attributes and indentation
\* left out): the number of file elements the parser reads. A CDATA section
\* runs to the first "]]>"; a <file> tag outside a CDATA section opens a
\* file element.
parseFileElements(elements) ==
  LET text == Concat([i \in 1..Len(elements) |-> <<"<","f","i","l","e",">">> \o elements[i] \o <<"<","/","f","i","l","e",">">>])
      Next2(a, b) == IF a = 0 THEN b ELSE IF b = 0 THEN a ELSE IF a < b THEN a ELSE b
      RECURSIVE scan(_)
      scan(from) ==
        LET cdata == IndexOf(text, <<"<","!","[","C","D","A","T","A","[">>, from)
            file  == IndexOf(text, <<"<","f","i","l","e",">">>, from)
            next  == Next2(cdata, file)
        IN  IF next = 0 THEN 0
            ELSE IF next = cdata
            THEN LET close == IndexOf(text, <<"]","]",">">>, cdata + Len(<<"<","!","[","C","D","A","T","A","[">>))
                 IN  IF close = 0 THEN 0 ELSE scan(close + Len(<<"]","]",">">>))
            ELSE 1 + scan(file + Len(<<"<","f","i","l","e",">">>))
  IN  scan(1)

FileRecord(relativePath, content) ==
  [path |-> Join(ProjectRoot, relativePath), relativePath |-> relativePath, content |-> content]

\* app.js "a"; src/server.JS "a\nb"; lib/util.js "a\nb\nc"; style.css "";
\* Dockerfile "a\nb"; tpl.html "<&]]>"; docs/cafe.md "caf" and U+00E9;
\* .env "a"; notes.xml, whose content closes the CDATA section, the content
\* and the file element and opens new ones; and one record as readFiles
\* makes it on Windows, where path.relative separates segments with a
\* backslash
FileRecordUniverse == {
  [path         |-> <<"C",":","\\","p","r","o","j","\\","m","y",".","a","p","p","\\","D","o","c","k","e","r","f","i","l","e">>,
   relativePath |-> <<"m","y",".","a","p","p","\\","D","o","c","k","e","r","f","i","l","e">>,
   content      |-> <<"a">>],
  FileRecord(<<"a","p","p",".","j","s">>, <<"a">>),
  FileRecord(<<"s","r","c","/","s","e","r","v","e","r",".","J","S">>, <<"a","\n","b">>),
  FileRecord(<<"l","i","b","/","u","t","i","l",".","j","s">>, <<"a","\n","b","\n","c">>),
  FileRecord(<<"s","t","y","l","e",".","c","s","s">>, <<>>),
  FileRecord(<<"D","o","c","k","e","r","f","i","l","e">>, <<"a","\n","b">>),
  FileRecord(<<"t","p","l",".","h","t","m","l">>, <<"<","&","]","]",">">>),
  FileRecord(<<"d","o","c","s","/","c","a","f","e",".","m","d">>, <<"c","a","f">> \o <<"U+00E9">>),
  FileRecord(<<".","e","n","v">>, <<"a">>),
  FileRecord(<<"n","o","t","e","s",".","x","m","l">>, <<"]","]",">","<","/","c","o","n","t","e","n","t",">","<","/","f","i","l","e",">","<","f","i","l","e",">","<","c","o","n","t","e","n","t",">","<","!","[","C","D","A","T","A","[">>) }

InitExport ==
  /\ DiscoveryIdle
  /\ ReadIdle
  /\ TreeIdle
  /\ RunIdle
  /\ TechIdle
  /\ ParseIdle
  /\ ScaffoldIdle
  /\ ExtensionIdle
  /\ fileContents \in UNION {[1..n -> FileRecordUniverse] : n \in 0..MaxRecords}
  /\ xmlData = Pending
  /\ fullXml = Pending

GenerateFullCodebase ==
  /\ xmlData = Pending
  /\ xmlData' = generateFullCodebase(fileContents)
  /\ fullXml' = build(xmlData')
  /\ UNCHANGED <<fileContents, discoveryVars, readVars, treeVars, runVars, techVars, parseVars, scaffoldVars, extensionVars>>

NextExport == GenerateFullCodebase

SpecExport == InitExport /\ [][NextExport]_vars

-----------------------------------------------------------------------------
(* Claims about the full-codebase export *)

RECURSIVE SumField(_, _)
SumField(entries, field) ==
  IF entries = <<>> THEN 0
  ELSE (IF field = "count" THEN Head(entries).count ELSE Head(entries).totalLines)
       + SumField(Tail(entries), field)

\* C9: in the summary, the per-extension file counts add up to the corpus
\* totalFiles and the per-extension totalLines add up to the corpus
\* totalLines.
C9_ExtensionTotalsAddUp ==
  xmlData # Pending =>
    /\ SumField(xmlData.summary.extensions, "count") = xmlData.summary.statistics.totalFiles
    /\ SumField(xmlData.summary.extensions, "totalLines")
         = xmlData.summary.statistics.totalLines

\* two .js files of 1 and 3 lines and a Dockerfile: two entries, js with
\* 2 files and 4 lines, no-extension with 1 file and 2 lines
C9_Witness ==
  /\ xmlData # Pending
  /\ Len(fileContents) = 3
  /\ Len(xmlData.summary.extensions) = 2
  /\ xmlData.summary.extensions[1].name = <<"j","s">>
  /\ xmlData.summary.extensions[1].count = 2
  /\ xmlData.summary.extensions[1].totalLines = 4
  /\ xmlData.summary.extensions[2].name = <<"n","o","-","e","x","t","e","n","s","i","o","n">>
  /\ xmlData.summary.statistics.totalLines = 6

\* C10: for an empty FileRecord list the export has totalFiles = 0, every
\* corpus statistics field equal to zero, the two averages included, and no
\* per-extension entry.
C10_EmptyInputAllZero ==
  (xmlData # Pending /\ fileContents = <<>>) =>
    /\ xmlData.totalFiles = 0
    /\ xmlData.files = <<>>
    /\ xmlData.summary.statistics.totalFiles = 0
    /\ xmlData.summary.statistics.totalLines = 0
    /\ xmlData.summary.statistics.totalCharacters = 0
    /\ xmlData.summary.statistics.totalSizeBytes = 0
    /\ xmlData.summary.statistics.averageLinesPerFile = Finite(0)
    /\ xmlData.summary.statistics.averageCharactersPerFile = Finite(0)
    /\ xmlData.summary.extensions = <<>>

\* C11: for every FileRecord, the content read back from the written
\* export (the CDATA of the file's content element) is identical to the
\* record's content, also when the content holds <, >, & or "]]>".
C11_ContentRoundTrips ==
  xmlData # Pending =>
    \A i \in 1..Len(fileContents) :
      parseContentElement(fullXml[i]).cdata = fileContents[i].content

\* C27: in every export the root totalFiles attribute, the number of file
\* entries of the written document and the totalFiles of the summary
\* statistics equal the number of FileRecords given, and the file entries
\* come in the order of the FileRecords.
C27_CountsEqualRecords ==
  xmlData # Pending =>
    /\ xmlData.totalFiles = Len(fileContents)
    /\ xmlData.summary.statistics.totalFiles = Len(fileContents)
    /\ parseFileElements(fullXml) = Len(fileContents)
    /\ Len(xmlData.files) = Len(fileContents)
    /\ \A i \in 1..Len(fileContents) :
          xmlData.files[i].path = fileContents[i].relativePath

\* the final segment of a path, segments separated by / or by \
FinalSegment(path) ==
  LET seps == {i \in 1..Len(path) : path[i] \in {"/", "\\"}}
      last == IF seps = {} THEN 0 ELSE CHOOSE i \in seps : \A j \in seps : j <= i
  IN  SubSeq(path, last + 1, Len(path))

\* the lowercased text after the last "." of the final segment; empty when
\* the segment has no "." or its only "." is its first character
ExtensionOfFinalSegment(path) ==
  LET segment == FinalSegment(path)
      dots    == {i \in 1..Len(segment) : segment[i] = "."}
      last    == IF dots = {} THEN 0 ELSE CHOOSE i \in dots : \A j \in dots : j <= i
  IN  IF last <= 1 THEN <<>>
      ELSE ToLowerCase(SubSeq(segment, last + 1, Len(segment)))

\* C12: the extension attribute of every file entry is the lowercased text
\* after the last "." of the path's final segment (empty when there is no
\* "." or only a leading one), and the files with the empty extension are
\* counted together under the one no-extension entry of the summary.
C12_ExtensionOfFinalSegment ==
  xmlData # Pending =>
    /\ \A i \in 1..Len(xmlData.files) :
         xmlData.files[i].extension = ExtensionOfFinalSegment(fileContents[i].relativePath)
    /\ LET bare == {i \in 1..Len(fileContents) :
                      ExtensionOfFinalSegment(fileContents[i].relativePath) = <<>>}
           sentinel == {k \in 1..Len(xmlData.summary.extensions) :
                          xmlData.summary.extensions[k].name = <<"n","o","-","e","x","t","e","n","s","i","o","n">>}
       IN  IF bare = {} THEN sentinel = {}
           ELSE /\ Cardinality(sentinel) = 1
                /\ \A k \in sentinel :
                     xmlData.summary.extensions[k].count = Cardinality(bare)

\* the number of "\n"-separated segments: one more than the number of "\n"
SegmentCount(content) == Cardinality({i \in 1..Len(content) : content[i] = "\n"}) + 1

RECURSIVE SumOfLines(_, _)
SumOfLines(entries, keep) ==
  IF entries = <<>> THEN 0
  ELSE (IF Head(entries).extension \in keep THEN Head(entries).lines ELSE 0)
       + SumOfLines(Tail(entries), keep)

ExtensionsOf(entries) == {entries[i].extension : i \in 1..Len(entries)}

\* C13: the lines attribute of every file entry is the number of
\* "\n"-separated segments of the content, the corpus totalLines is the sum
\* of these attributes, and each extension's totalLines is their sum over
\* the files of that extension.
C13_LineCountIsSegmentCount ==
  xmlData # Pending =>
    /\ \A i \in 1..Len(xmlData.files) :
         xmlData.files[i].lines = SegmentCount(fileContents[i].content)
    /\ xmlData.summary.statistics.totalLines
         = SumOfLines(xmlData.files, ExtensionsOf(xmlData.files))
    /\ \A k \in 1..Len(xmlData.summary.extensions) :
         LET name == xmlData.summary.extensions[k].name
             ext  == IF name = <<"n","o","-","e","x","t","e","n","s","i","o","n">> THEN <<>> ELSE name
         IN  xmlData.summary.extensions[k].totalLines = SumOfLines(xmlData.files, {ext})

\* content "a\nb" counted as 2 lines and the empty content as 1 line
C13_Witness ==
  /\ xmlData # Pending
  /\ Len(xmlData.files) = 2
  /\ xmlData.files[1].content = <<"a","\n","b">>
  /\ xmlData.files[1].lines = 2
  /\ xmlData.files[2].content = <<>>
  /\ xmlData.files[2].lines = 1
  /\ xmlData.summary.statistics.totalLines = 3

\* C15: the size attribute of every file entry is the byte size of the
\* file's content, its UTF-8 encoded length, the measure summed into the
\* corpus totalSizeBytes.
C15_SizeIsByteLength ==
  xmlData # Pending =>
    \A i \in 1..Len(xmlData.files) :
      xmlData.files[i].size = Utf8ByteLength(fileContents[i].content)

-----------------------------------------------------------------------------
(* generate-project-structure.js: generateFileStatistics *)

\* getFileExtension of generate-project-structure.js
\* (lastIndexOf is one-based here: 0 for -1, 1 for 0)
getFileExtensionOfBasename(path) ==
  LET filename     == Basename(path)
      lastDotIndex == LastIndexOf(filename, ".")
  IN  IF lastDotIndex = 0 \/ lastDotIndex = 1 THEN <<>>
      ELSE ToLowerCase(SubSeq(filename, lastDotIndex + 1, Len(filename)))

\* String(n) for an integer n >= 0
RECURSIVE DecimalString(_)
DecimalString(n) ==
  IF n < 10 THEN <<SubSeq(<<"0","1","2","3","4","5","6","7","8","9">>, n + 1, n + 1)[1]>>
  ELSE DecimalString(n \div 10) \o DecimalString(n % 10)

\* a percentage cut off after the first decimal, not rounded
toFixed1_truncated(count, totalFiles) ==
  LET tenths == (1000 * count) \div totalFiles
  IN  DecimalString(tenths \div 10) \o <<".">> \o DecimalString(tenths % 10)

\* ((count / totalFiles) * 100).toFixed(1): the nearest multiple of 0.1,
\* the larger one at a tie, written with one decimal
toFixed1(count, totalFiles) ==
  LET tenths == (2000 * count + totalFiles) \div (2 * totalFiles)
  IN  DecimalString(tenths \div 10) \o <<".">> \o DecimalString(tenths % 10)

\* the for loop that fills the Map stats: [ext, count] in insertion order
RECURSIVE countExtensions(_, _)
countExtensions(pathList, stats) ==
  IF pathList = <<>> THEN stats
  ELSE LET extension == getFileExtensionOfBasename(Head(pathList))
           present   == \E i \in 1..Len(stats) : stats[i].ext = extension
           withExt   == IF present THEN stats
                        ELSE Append(stats, [ext |-> extension, count |-> 0])
           k         == CHOOSE i \in 1..Len(withExt) : withExt[i].ext = extension
       IN  countExtensions(Tail(pathList),
                           [withExt EXCEPT ![k] = [ext |-> extension, count |-> @.count + 1]])

\* a comparator that looks at the counts only
compareStats_countOnly(a, b) == b.count - a.count

\* the comparator of sortedStats
compareStats(a, b) ==
  IF b.count # a.count THEN b.count - a.count ELSE LocaleCompare(a.ext, b.ext)

RECURSIVE sortStats(_)
sortStats(stats) ==
  IF stats = <<>> THEN <<>>
  ELSE LET e      == Last(stats)
           sorted == sortStats(SubSeq(stats, 1, Len(stats) - 1))
           k      == Cardinality({i \in 1..Len(sorted) : compareStats(sorted[i], e) <= 0})
       IN  SubSeq(sorted, 1, k) \o <<e>> \o SubSeq(sorted, k + 1, Len(sorted))

\* rows: the table rows in order, each with the texts of its three cells;
\* result: the markdown text returned
generateFileStatistics(pathList) ==
  LET totalFiles  == Len(pathList)
      sortedStats == sortStats(countExtensions(pathList, <<>>))
      rows == [i \in 1..Len(sortedStats) |->
                [displayExt |-> IF sortedStats[i].ext # <<>> THEN sortedStats[i].ext
                                ELSE <<"(","n","o"," ","e","x","t","e","n","s","i","o","n",")">>,
                 count      |-> sortedStats[i].count,
                 percentage |-> toFixed1(sortedStats[i].count, totalFiles)]]
      lines == [i \in 1..Len(rows) |->
                 <<"|"," ">> \o rows[i].displayExt \o <<" ","|"," ">> \o DecimalString(rows[i].count)
                   \o <<" ","|"," ">> \o rows[i].percentage \o <<"%"," ","|","\n">>]
  IN  [totalFiles |-> totalFiles,
       rows       |-> rows,
       result     |-> <<"|"," ","E","x","t","e","n","s","i","o","n"," ","|"," ","C","o","u","n","t"," ","|"," ","P","e","r","c","e","n","t","a","g","e"," ","|","\n">>
                        \o <<"|","-","-","-","-","-","-","-","-","-","-","-","|","-","-","-","-","-","-","-","-","|","-","-","-","-","-","-","-","-","-","-","-","-","|","\n">>
                        \o Concat(lines)
                        \o <<"\n","*","*","T","o","t","a","l"," ","f","i","l","e","s",":","*","*"," ">> \o DecimalString(totalFiles) \o <<"\n">>]

StatPathUniverse ==
  {<<"a","p","p",".","j","s">>, <<"s","r","c","/","S","e","r","v","e","r",".","J","S">>, <<"s","t","y","l","e",".","c","s","s">>, <<"R","E","A","D","M","E",".","m","d">>, <<"D","o","c","k","e","r","f","i","l","e">>, <<".","e","n","v">>,
   <<"p","a","c","k","a","g","e",".","j","s","o","n">>}

\* the eight paths of the statistics test: extensions js, js, js, css,
\* css, tsx, md, json
ScenarioPaths ==
  <<<<"a","p","p",".","j","s">>, <<"s","e","r","v","e","r",".","j","s">>, <<"c","o","n","f","i","g",".","j","s">>, <<"s","t","y","l","e",".","c","s","s">>, <<"m","a","i","n",".","c","s","s">>, <<"c","o","m","p","o","n","e","n","t",".","t","s","x">>,
    <<"R","E","A","D","M","E",".","m","d">>, <<"p","a","c","k","a","g","e",".","j","s","o","n">>>>

InitStatistics ==
  /\ DiscoveryIdle
  /\ ReadIdle
  /\ ExportIdle
  /\ RunIdle
  /\ TechIdle
  /\ ParseIdle
  /\ ScaffoldIdle
  /\ ExtensionIdle
  /\ relativePaths \in
       UNION {[1..n -> StatPathUniverse] : n \in 0..MaxStatPaths} \cup {ScenarioPaths}
  /\ fileTree = Pending
  /\ fileStatistics = Pending
  /\ treeString = Pending
  /\ projectStructure = Pending

GenerateFileStatistics ==
  /\ fileStatistics = Pending
  /\ fileStatistics' = generateFileStatistics(relativePaths)
  /\ UNCHANGED <<relativePaths, fileTree, treeString, projectStructure, discoveryVars, readVars, exportVars, runVars, techVars, parseVars, scaffoldVars, extensionVars>>

NextStatistics == GenerateFileStatistics

SpecStatistics == InitStatistics /\ [][NextStatistics]_vars

-----------------------------------------------------------------------------
(* Claims about the statistics table *)

\* the number of tenths a text of the form digits "." digit stands for,
\* -1 for any other text
RECURSIVE DigitsValue(_)
DigitsValue(text) ==
  IF text = <<>> THEN 0
  ELSE 10 * DigitsValue(SubSeq(text, 1, Len(text) - 1))
       + (CHOOSE d \in 0..9 : DecimalString(d) = <<Last(text)>>)

TenthsOf(text) ==
  IF /\ Len(text) >= 3
     /\ text[Len(text) - 1] = "."
     /\ \A i \in (1..Len(text)) \ {Len(text) - 1} : text[i] \in Range(<<"0","1","2","3","4","5","6","7","8","9">>)
  THEN DigitsValue(SubSeq(text, 1, Len(text) - 2) \o <<Last(text)>>)
  ELSE -1

RowOf(displayExt) ==
  LET hits == {i \in 1..Len(fileStatistics.rows) :
                 fileStatistics.rows[i].displayExt = displayExt}
  IN  IF hits = {} THEN [displayExt |-> displayExt, count |-> 0, percentage |-> <<>>]
      ELSE fileStatistics.rows[CHOOSE i \in hits : TRUE]

\* C14: every row's percentage is written with exactly one decimal and is
\* the multiple of 0.1 nearest to count / total * 100, each row on its own;
\* for the extensions js, js, js, css, css, tsx, md, json the rows are
\* js 3 37.5%, css 2 25.0%, and tsx, md, json 1 12.5% each.
C14_PercentagePerRow ==
  fileStatistics # Pending =>
    /\ \A i \in 1..Len(fileStatistics.rows) :
         LET row    == fileStatistics.rows[i]
             tenths == TenthsOf(row.percentage)
             exact  == 1000 * row.count
             total  == Len(relativePaths)
         IN  /\ tenths >= 0
             /\ 2 * (tenths * total - exact) <= total
             /\ 2 * (exact - tenths * total) <= total
    /\ relativePaths = ScenarioPaths =>
         /\ Len(fileStatistics.rows) = 5
         /\ RowOf(<<"j","s">>).count = 3   /\ RowOf(<<"j","s">>).percentage = <<"3","7",".","5">>
         /\ RowOf(<<"c","s","s">>).count = 2  /\ RowOf(<<"c","s","s">>).percentage = <<"2","5",".","0">>
         /\ RowOf(<<"t","s","x">>).count = 1  /\ RowOf(<<"t","s","x">>).percentage = <<"1","2",".","5">>
         /\ RowOf(<<"m","d">>).count = 1   /\ RowOf(<<"m","d">>).percentage = <<"1","2",".","5">>
         /\ RowOf(<<"j","s","o","n">>).count = 1 /\ RowOf(<<"j","s","o","n">>).percentage = <<"1","2",".","5">>

\* the scenario table has been generated and holds the js row as text
C14_Witness ==
  /\ fileStatistics # Pending
  /\ relativePaths = ScenarioPaths
  /\ Includes(fileStatistics.result, <<"|"," ","j","s"," ","|"," ","3"," ","|"," ","3","7",".","5","%"," ","|","\n">>)

-----------------------------------------------------------------------------
(* Claims about getIgnorePatterns *)

\* what an ignore file contributes: its parsed patterns when it exists and
\* can be read, nothing otherwise
Contribution(file) ==
  IF file.exists /\ file.error = "" THEN parseIgnoreFile(file.content) ELSE <<>>

\* C16: the patterns of every getRelevantFiles call are the default
\* patterns, then the patterns parsed from .gitignore, then those parsed
\* from .initrepoignore, in file order and with repetitions kept; a missing
\* or unreadable ignore file contributes nothing and does not keep the
\* other file's patterns out.
C16_DefaultsThenGitignoreThenInitrepoignore ==
  \A i \in 1..Len(calls) :
    calls[i].ignore
      = DEFAULT_IGNORE_PATTERNS \o Contribution(gitignore) \o Contribution(initrepoignore)

\* .gitignore cannot be read and .initrepoignore holds src/: the patterns
\* are the defaults followed by src/**
C16_Witness ==
  /\ Len(calls) >= 1
  /\ gitignore = UnreadableFile
  /\ initrepoignore = TextFile(<<"s","r","c","/","\n">>)
  /\ calls[1].ignore = DEFAULT_IGNORE_PATTERNS \o <<<<"s","r","c","/","*","*">>>>

-----------------------------------------------------------------------------
(* main.js: the default command, handleInitCommand and handleExtractCommand *)

\* the content generateProjectStructure hands to writeFileSync (the
\* "Generated on" line left out), for filePaths.length, the text of
\* generateTreeString and the text of generateFileStatistics
projectStructureContent(totalFiles, treeText, statisticsText) ==
  <<"#"," ","P","r","o","j","e","c","t"," ","S","t","r","u","c","t","u","r","e","\n","\n">>
    \o <<"T","o","t","a","l"," ","f","i","l","e","s",":"," ">> \o DecimalString(totalFiles) \o <<"\n","\n">>
    \o <<"U+0060", "U+0060", "U+0060", "\n">>
    \o treeText
    \o <<"U+0060", "U+0060", "U+0060", "\n", "\n">>
    \o <<"#","#"," ","F","i","l","e"," ","S","t","a","t","i","s","t","i","c","s","\n","\n">>
    \o statisticsText

\* the three documents, in the order handleExtractCommand generates them
DocumentOrder == <<"tech-stack.md", "project-structure.md", "full-codebase.xml">>

\* messages with which mkdirSync, writeFileSync and copyFileSync can throw
FsErrors == {"ENOSPC: no space left on device", "EACCES: permission denied"}

\* the project the run scans
RunProject == {<<"s","r","c","/","a","p","p",".","j","s">>, <<"d","o","c","s","/","R","E","A","D","M","E",".","M","D">>}

\* the default ignore-file template, templates/initrepoignore.default
DefaultTemplate == TextFile(<<"#"," ","I","n","i","t","R","e","p","o"," ","i","g","n","o","r","e"," ","f","i","l","e","\n">>)

InitRun ==
  /\ tree = RunProject
  /\ gitignore = AbsentFile
  /\ initrepoignore \in {AbsentFile, TextFile(<<"s","r","c","/","\n">>)}
  /\ calls = <<>>
  /\ filePaths = <<>>
  /\ disk \in [{Join(ProjectRoot, path) : path \in RunProject} -> DiskFileStates]
  /\ readResult = Pending
  /\ TreeIdle
  /\ ExportIdle
  /\ TechIdle
  /\ ParseIdle
  /\ ScaffoldIdle
  /\ ExtensionIdle
  /\ options \in [init : BOOLEAN]
  /\ pc = "main"
  /\ outputDirExists \in BOOLEAN
  /\ outputFiles \in SUBSET Range(DocumentOrder)
  /\ outputFiles # {} => outputDirExists
  /\ written = <<>>
  /\ messages = <<>>
  /\ exitCode = 0

Display(kind, text) == messages' = Append(messages, [kind |-> kind, text |-> text])

\* the catch block of the default action: displayError, process.exit(1)
Fail(message) ==
  /\ Display("error", "Error: " \o message)
  /\ exitCode' = 1
  /\ pc' = "exited"

\* handleInitCommand copying the template over an existing .initrepoignore
HandleInitCommand_overwrite ==
  /\ pc = "main"
  /\ options.init
  /\ initrepoignore' = DefaultTemplate
  /\ Display("success", "Created .initrepoignore in the current directory")
  /\ pc' = "exited"
  /\ UNCHANGED <<options, outputDirExists, outputFiles, written, exitCode>>
  /\ UNCHANGED <<tree, gitignore, calls, readVars, treeVars, exportVars, techVars, parseVars, scaffoldVars, extensionVars>>

\* the default action with options.init set: handleInitCommand
HandleInitCommand ==
  /\ pc = "main"
  /\ options.init
  /\ IF initrepoignore.exists
     THEN /\ Display("warning", ".initrepoignore already exists in the current directory")
          /\ pc' = "exited"
          /\ UNCHANGED <<initrepoignore, exitCode>>
     ELSE \/ /\ initrepoignore' = DefaultTemplate
             /\ Display("success", "Created .initrepoignore in the current directory")
             /\ pc' = "exited"
             /\ UNCHANGED exitCode
          \/ \E error \in FsErrors :
               /\ Fail("Failed to create .initrepoignore: " \o error)
               /\ UNCHANGED initrepoignore
  /\ UNCHANGED <<options, outputDirExists, outputFiles, written>>
  /\ UNCHANGED <<tree, gitignore, calls, readVars, treeVars, exportVars, techVars, parseVars, scaffoldVars, extensionVars>>

\* handleExtractCommand up to its first await: the output directory
CreateOutputDir ==
  /\ pc = "main"
  /\ ~options.init
  /\ IF outputDirExists
     THEN /\ pc' = "scan"
          /\ UNCHANGED <<outputDirExists, messages, exitCode>>
     ELSE \/ /\ outputDirExists' = TRUE
             /\ Display("success", "Created output directory: .initrepo/")
             /\ pc' = "scan"
             /\ UNCHANGED exitCode
          \/ \E error \in FsErrors :
               /\ Fail(error)
               /\ UNCHANGED outputDirExists
  /\ UNCHANGED <<options, outputFiles, written>>
  /\ UNCHANGED <<discoveryVars, readVars, treeVars, exportVars, techVars, parseVars, scaffoldVars, extensionVars>>

\* step 1 going on to step 2 with an empty list when discovery fails
ScanFiles_continueOnError ==
  /\ pc = "scan"
  /\ \E globbed \in globby(tree, getIgnorePatterns(gitignore, initrepoignore).patterns) :
       LET result == getRelevantFiles(ProjectRoot, globbed) IN
       /\ calls' = Append(calls, [ignore  |-> getIgnorePatterns(gitignore, initrepoignore).patterns,
                                  globbed |-> globbed,
                                  result  |-> result])
       /\ IF result.status = "rejected"
          THEN Display("error", "Error: " \o result.message)
          ELSE UNCHANGED messages
       /\ pc' = "read"
       /\ UNCHANGED exitCode
  /\ UNCHANGED <<options, outputDirExists, outputFiles, written>>
  /\ UNCHANGED <<tree, gitignore, initrepoignore, readVars, treeVars, exportVars, techVars, parseVars, scaffoldVars, extensionVars>>

\* step 1: await getRelevantFiles(workingDir)
ScanFiles ==
  /\ pc = "scan"
  /\ \E globbed \in globby(tree, getIgnorePatterns(gitignore, initrepoignore).patterns) :
       LET result == getRelevantFiles(ProjectRoot, globbed) IN
       /\ calls' = Append(calls, [ignore  |-> getIgnorePatterns(gitignore, initrepoignore).patterns,
                                  globbed |-> globbed,
                                  result  |-> result])
       /\ IF result.status = "rejected"
          THEN Fail(result.message)
          ELSE /\ pc' = "read"
               /\ UNCHANGED <<messages, exitCode>>
  /\ UNCHANGED <<options, outputDirExists, outputFiles, written>>
  /\ UNCHANGED <<tree, gitignore, initrepoignore, readVars, treeVars, exportVars, techVars, parseVars, scaffoldVars, extensionVars>>

\* step 2: await readFiles(filePaths), which does not throw; filePaths is
\* what getRelevantFiles returned in step 1
ReadFileContents ==
  /\ pc = "read"
  /\ filePaths' = (IF Last(calls).result.status = "fulfilled"
                   THEN Last(calls).result.value ELSE <<>>)
  /\ readResult' = readFiles(filePaths', disk, ProjectRoot)
  /\ pc' = "tech-stack.md"
  /\ UNCHANGED <<options, outputDirExists, outputFiles, written, messages, exitCode>>
  /\ UNCHANGED <<disk, discoveryVars, treeVars, exportVars, techVars, parseVars, scaffoldVars, extensionVars>>

\* a generator whose failed write is reported while the run goes on
WriteDocument_continueOnError(document, next) ==
  /\ pc = document
  /\ \/ /\ written' = Append(written, document)
        /\ outputFiles' = outputFiles \cup {document}
        /\ UNCHANGED messages
     \/ \E error \in FsErrors :
          /\ Display("error", "Error: " \o error)
          /\ UNCHANGED <<written, outputFiles>>
  /\ pc' = next
  /\ UNCHANGED <<options, outputDirExists, exitCode>>

\* steps 3 to 5: a generator builds its document and ends with one
\* writeFileSync, which writes the document or throws
WriteDocument(document, next) ==
  /\ pc = document
  /\ \/ /\ written' = Append(written, document)
        /\ outputFiles' = outputFiles \cup {document}
        /\ pc' = next
        /\ UNCHANGED <<messages, exitCode>>
     \/ \E error \in FsErrors :
          /\ Fail(error)
          /\ UNCHANGED <<written, outputFiles>>
  /\ UNCHANGED <<options, outputDirExists>>

\* step 3: await generateTechStack(workingDir, outputDir)
RunGenerateTechStack ==
  /\ WriteDocument("tech-stack.md", "project-structure.md")
  /\ UNCHANGED <<discoveryVars, readVars, treeVars, exportVars, techVars, parseVars, scaffoldVars, extensionVars>>

\* step 4 given the paths of the files that could be read
RunGenerateProjectStructure_readFilesOnly ==
  /\ pc = "project-structure.md"
  /\ relativePaths' = [i \in 1..Len(readResult.fileContents) |->
                        readResult.fileContents[i].relativePath]
  /\ fileTree' = buildFileTree(relativePaths')
  /\ IF fileTree'.status = "threw"
     THEN /\ treeString' = Pending
          /\ fileStatistics' = Pending
          /\ projectStructure' = Pending
          /\ Fail("Cannot read properties of null (reading 'has')")
          /\ UNCHANGED <<options, outputDirExists, outputFiles, written>>
     ELSE /\ treeString' = [status |-> "returned",
                            text   |-> generateTreeString(fileTree'.tree, Basename(ProjectRoot))]
          /\ fileStatistics' = generateFileStatistics(relativePaths')
          /\ projectStructure' =
               [status |-> "returned",
                text   |-> projectStructureContent(Len(relativePaths'), treeString'.text,
                                                   fileStatistics'.result)]
          /\ WriteDocument("project-structure.md", "full-codebase.xml")
  /\ UNCHANGED <<discoveryVars, readVars, exportVars, techVars, parseVars, scaffoldVars, extensionVars>>

\* step 4: await generateProjectStructure(filePaths, outputDir), with
\* process.cwd() = ProjectRoot; buildFileTree may throw
RunGenerateProjectStructure ==
  /\ pc = "project-structure.md"
  /\ relativePaths' = [i \in 1..Len(filePaths) |-> Relative(ProjectRoot, filePaths[i])]
  /\ fileTree' = buildFileTree(relativePaths')
  /\ IF fileTree'.status = "threw"
     THEN /\ treeString' = Pending
          /\ fileStatistics' = Pending
          /\ projectStructure' = Pending
          /\ Fail("Cannot read properties of null (reading 'has')")
          /\ UNCHANGED <<options, outputDirExists, outputFiles, written>>
     ELSE /\ treeString' = [status |-> "returned",
                            text   |-> generateTreeString(fileTree'.tree, Basename(ProjectRoot))]
          /\ fileStatistics' = generateFileStatistics(relativePaths')
          /\ projectStructure' =
               [status |-> "returned",
                text   |-> projectStructureContent(Len(relativePaths'), treeString'.text,
                                                   fileStatistics'.result)]
          /\ WriteDocument("project-structure.md", "full-codebase.xml")
  /\ UNCHANGED <<discoveryVars, readVars, exportVars, techVars, parseVars, scaffoldVars, extensionVars>>

\* step 5: await generateFullCodebase(fileContents, outputDir); fileContents
\* is what readFiles returned in step 2
RunGenerateFullCodebase ==
  /\ pc = "full-codebase.xml"
  /\ fileContents' = readResult.fileContents
  /\ xmlData' = generateFullCodebase(fileContents')
  /\ fullXml' = build(xmlData')
  /\ WriteDocument("full-codebase.xml", "completion")
  /\ UNCHANGED <<discoveryVars, readVars, treeVars, techVars, parseVars, scaffoldVars, extensionVars>>

\* the end of handleExtractCommand; the process then ends by itself
DisplayCompletion ==
  /\ pc = "completion"
  /\ Display("completion", "Analysis complete!")
  /\ pc' = "exited"
  /\ UNCHANGED <<options, outputDirExists, outputFiles, written, exitCode>>
  /\ UNCHANGED <<discoveryVars, readVars, treeVars, exportVars, techVars, parseVars, scaffoldVars, extensionVars>>

NextRun ==
  \/ HandleInitCommand
  \/ CreateOutputDir
  \/ ScanFiles
  \/ ReadFileContents
  \/ RunGenerateTechStack
  \/ RunGenerateProjectStructure
  \/ RunGenerateFullCodebase
  \/ DisplayCompletion

SpecRun == InitRun /\ [][NextRun]_vars

-----------------------------------------------------------------------------
(* Claims about a run *)

ScanFailed == \E i \in 1..Len(calls) : calls[i].result.status = "rejected"

\* C17: when file discovery fails in an extract run, the run has written
\* none of the three documents, the error has been displayed and the
\* process has exited with status 1.
C17_DiscoveryFailureWritesNothing ==
  (pc # "idle" /\ ScanFailed) =>
    /\ written = <<>>
    /\ pc = "exited"
    /\ exitCode = 1
    /\ Last(messages) = [kind |-> "error", text |-> "Error: " \o calls[1].result.message]

\* discovery failed with Permission denied in a run that had to create the
\* output directory: the directory is there and empty
C17_Witness ==
  /\ pc = "exited"
  /\ ScanFailed
  /\ outputDirExists
  /\ outputFiles = {}
  /\ Last(messages).text = "Error: Failed to scan files: Permission denied"

\* C18: the documents a run has written are always a prefix of tech-stack.md,
\* project-structure.md, full-codebase.xml and stay in the output directory;
\* a document is attempted only when all earlier ones are written; an
\* extract run ends either with all three written and status 0, or with an
\* error displayed and status 1.
C18_WritesInOrderUntilFirstFailure ==
  pc # "idle" =>
    /\ written = SubSeq(DocumentOrder, 1, Len(written))
    /\ Range(written) \subseteq outputFiles
    /\ pc \in Range(DocumentOrder) => DocumentOrder[Len(written) + 1] = pc
    /\ (pc = "exited" /\ ~options.init) =>
         \/ written = DocumentOrder /\ exitCode = 0
         \/ /\ exitCode = 1
            /\ Len(written) < 3
            /\ Last(messages).kind = "error"

\* the write of project-structure.md failed: tech-stack.md is in place,
\* nothing else was written, status 1
C18_Witness ==
  /\ pc = "exited"
  /\ exitCode = 1
  /\ written = <<"tech-stack.md">>
  /\ outputFiles = {"tech-stack.md"}

\* C19: a run with --init never calls discovery, never creates the output
\* directory and writes no document; an existing .initrepoignore is left
\* as it is and a warning is displayed; otherwise the default template
\* becomes .initrepoignore, unless the copy fails, which ends the run with
\* status 1.
C19_InitOnlyMaterializesTemplate ==
  [][options.init =>
       /\ pc = "main" /\ pc' = "exited"
       /\ UNCHANGED <<calls, outputDirExists, outputFiles, written>>
       /\ IF initrepoignore.exists
          THEN /\ UNCHANGED <<initrepoignore, exitCode>>
               /\ Last(messages').kind = "warning"
          ELSE \/ initrepoignore' = DefaultTemplate /\ exitCode' = 0
               \/ UNCHANGED initrepoignore /\ exitCode' = 1]_vars

\* --init in a directory without .initrepoignore and without .initrepo
C19_Witness ==
  /\ options.init
  /\ pc = "exited"
  /\ initrepoignore = DefaultTemplate
  /\ calls = <<>>
  /\ ~outputDirExists

\* the numbers on the lines of project-structure.md that begin with label
CountsLabelled(label) ==
  LET lines == Split(projectStructure.text, "\n")
  IN  {DigitsValue(SubSeq(lines[i], Len(label) + 1, Len(lines[i]))) :
         i \in {j \in 1..Len(lines) : StartsWith(lines[j], label)}}

\* C28: in a run that has written project-structure.md and
\* full-codebase.xml, the header line and the closing total line of
\* project-structure.md both show the number of discovered paths, the
\* totalFiles of full-codebase.xml is the number of FileRecords read and
\* never exceeds that number, and the two are equal exactly when every
\* discovered file could be read.
C28_ExportCountAtMostStructureCount ==
  (pc # "idle" /\ "full-codebase.xml" \in Range(written)) =>
    LET discovered == Last(calls).result.value
    IN  /\ CountsLabelled(<<"T","o","t","a","l"," ","f","i","l","e","s",":"," ">>) = {Len(discovered)}
        /\ CountsLabelled(<<"*","*","T","o","t","a","l"," ","f","i","l","e","s",":","*","*"," ">>) = {Len(discovered)}
        /\ xmlData.totalFiles = Len(readResult.fileContents)
        /\ xmlData.totalFiles <= Len(discovered)
        /\ (xmlData.totalFiles = Len(discovered))
              <=> (\A i \in 1..Len(discovered) : CanBeRead(discovered[i]))

\* two files discovered, docs/README.MD cannot be read: 2 in project-structure.md,
\* 1 in full-codebase.xml
C28_Witness ==
  /\ pc = "exited"
  /\ written = DocumentOrder
  /\ Len(Last(calls).result.value) = 2
  /\ disk[<<"/","p","r","o","j","/","d","o","c","s","/","R","E","A","D","M","E",".","M","D">>] = DeniedFile
  /\ disk[<<"/","p","r","o","j","/","s","r","c","/","a","p","p",".","j","s">>] = TextBytes
  /\ CountsLabelled(<<"T","o","t","a","l"," ","f","i","l","e","s",":"," ">>) = {2}
  /\ CountsLabelled(<<"*","*","T","o","t","a","l"," ","f","i","l","e","s",":","*","*"," ">>) = {2}
  /\ xmlData.totalFiles = 1

-----------------------------------------------------------------------------
(* generate-tech-stack.js *)

\* the manifests in the order generateTechStack looks for them, with the
\* heading of the section each one gets
ManifestSections ==
  <<[file |-> "package.json",     heading |-> "## Node.js (package.json)"],
    [file |-> "requirements.txt", heading |-> "## Python (requirements.txt)"],
    [file |-> "Cargo.toml",       heading |-> "## Rust (Cargo.toml)"],
    [file |-> "composer.json",    heading |-> "## PHP (composer.json)"],
    [file |-> "pom.xml",          heading |-> "## Java Maven (pom.xml)"],
    [file |-> "build.gradle",     heading |-> "## Java Gradle (build.gradle)"]>>

ManifestFiles == {ManifestSections[i].file : i \in 1..Len(ManifestSections)}

\* a manifest of the project root: existsSync(path), and the message of the
\* error that reading and parsing it throws ("" when it can be parsed)
ManifestStates ==
  {[exists |-> FALSE, error |-> ""],
   [exists |-> TRUE, error |-> ""],
   [exists |-> TRUE, error |-> "Unexpected end of JSON input"]}

\* generateNodeJsSection and the five functions like it: the section of a
\* manifest that exists; the details of a parsed manifest are left out
generateSection(entry, manifest) ==
  IF manifest.error # ""
  THEN [heading |-> entry.heading,
        body    |-> "Error reading " \o entry.file \o ": " \o manifest.error]
  ELSE [heading |-> entry.heading, body |-> "details"]

NoManifestNotice ==
  [heading |-> "## No recognized manifest files found",
   body    |-> "This project does not contain common dependency manifest files"]

\* the content generateTechStack builds, after its title and date
techStackContent(found) ==
  LET present  == SelectSeq(ManifestSections, LAMBDA entry : found[entry.file].exists)
      sections == [i \in 1..Len(present) |-> generateSection(present[i], found[present[i].file])]
  IN  IF \A file \in ManifestFiles : ~found[file].exists
      THEN sections \o <<NoManifestNotice>>
      ELSE sections

\* generateTechStack giving up when a manifest cannot be parsed
generateTechStack_failOnBrokenManifest(found, writeError) ==
  IF \E file \in ManifestFiles : found[file].error # ""
  THEN [status |-> "threw", content |-> <<>>,
        message |-> found[CHOOSE file \in ManifestFiles : found[file].error # ""].error]
  ELSE IF writeError # ""
  THEN [status |-> "threw", content |-> <<>>, message |-> writeError]
  ELSE [status |-> "written", content |-> techStackContent(found), message |-> ""]

\* generateTechStack: writeError is the message with which the final
\* writeFileSync throws, "" when it writes
generateTechStack(found, writeError) ==
  IF writeError # ""
  THEN [status |-> "threw", content |-> <<>>, message |-> writeError]
  ELSE [status |-> "written", content |-> techStackContent(found), message |-> ""]

InitTechStack ==
  /\ DiscoveryIdle
  /\ ReadIdle
  /\ TreeIdle
  /\ ExportIdle
  /\ RunIdle
  /\ ParseIdle
  /\ ScaffoldIdle
  /\ ExtensionIdle
  /\ manifests \in [ManifestFiles -> ManifestStates]
  /\ techStack = Pending

GenerateTechStack ==
  /\ techStack = Pending
  /\ \E writeError \in {""} \cup FsErrors :
       techStack' = generateTechStack(manifests, writeError)
  /\ UNCHANGED <<manifests, discoveryVars, readVars, treeVars, exportVars, runVars, parseVars, scaffoldVars, extensionVars>>

NextTechStack == GenerateTechStack

SpecTechStack == InitTechStack /\ [][NextTechStack]_vars

-----------------------------------------------------------------------------
(* Claims about the tech-stack document *)

Headings(content) == [i \in 1..Len(content) |-> content[i].heading]

ExpectedHeadings ==
  LET present == SelectSeq(ManifestSections, LAMBDA entry : manifests[entry.file].exists)
  IN  [i \in 1..Len(present) |-> present[i].heading]

\* C20: generateTechStack fails only when the write of tech-stack.md
\* fails, whatever the manifests are; the document holds one section per
\* manifest that exists, in the fixed order; the section of a manifest that
\* cannot be parsed holds an error note, and only that section does; the
\* no-manifest notice is there exactly when none of the six exists.
C20_SectionsPerManifest ==
  techStack # Pending =>
    IF techStack.status = "threw" THEN techStack.message \in FsErrors
    ELSE LET content  == techStack.content
             noticed  == Len(content) > 0 /\ Last(content) = NoManifestNotice
             sections == IF noticed THEN SubSeq(content, 1, Len(content) - 1) ELSE content
         IN  /\ techStack.status = "written"
             /\ Headings(sections) = ExpectedHeadings
             /\ \A i \in 1..Len(sections) :
                  \E k \in 1..Len(ManifestSections) :
                    /\ ManifestSections[k].heading = sections[i].heading
                    /\ LET manifest == manifests[ManifestSections[k].file] IN
                       IF manifest.error = "" THEN sections[i].body = "details"
                       ELSE sections[i].body
                              = "Error reading " \o ManifestSections[k].file
                                  \o ": " \o manifest.error
             /\ noticed <=> \A file \in ManifestFiles : ~manifests[file].exists

\* package.json cannot be parsed, Cargo.toml and build.gradle can: three
\* sections in that order, the first with the error note
C20_Witness ==
  /\ techStack # Pending
  /\ techStack.status = "written"
  /\ Len(techStack.content) = 3
  /\ techStack.content[1].body = "Error reading package.json: Unexpected end of JSON input"
  /\ techStack.content[2] = [heading |-> "## Rust (Cargo.toml)", body |-> "details"]
  /\ techStack.content[3].heading = "## Java Gradle (build.gradle)"

-----------------------------------------------------------------------------
(* file-handler.js: parseIgnoreFile on the content of an ignore file *)

\* the content is up to MaxLines lines joined by "\n": blank lines,
\* comments, directory rules, rules with blanks or a carriage return around
\* them, a negation, a rule with a "#" inside
InitParse ==
  /\ DiscoveryIdle
  /\ ReadIdle
  /\ TreeIdle
  /\ ExportIdle
  /\ RunIdle
  /\ TechIdle
  /\ ScaffoldIdle
  /\ ExtensionIdle
  /\ LET lineUniverse == {<<>>, <<"\t">>, <<"#"," ","c">>, <<" "," ","#"," ","c">>, <<"b","u","i","l","d","/">>, <<" ","d","o","c","s","/"," ">>, <<"d","i","r","/","\r">>,
                          <<"*",".","l","o","g">>, <<"!","k","e","e","p",".","j","s">>, <<"a","#","b">>, <<"/">>}
     IN  ignoreContent \in {JoinWith(lines, "\n") :
                              lines \in UNION {[1..n -> lineUniverse] : n \in 0..MaxLines}}
  /\ parsedPatterns = Pending

ParseIgnoreFile ==
  /\ parsedPatterns = Pending
  /\ parsedPatterns' = [status |-> "returned", patterns |-> parseIgnoreFile(ignoreContent)]
  /\ UNCHANGED <<ignoreContent, discoveryVars, readVars, treeVars, exportVars, runVars,
                 techVars, scaffoldVars, extensionVars>>

NextParse == ParseIgnoreFile

SpecParse == InitParse /\ [][NextParse]_vars

-----------------------------------------------------------------------------
(* Claims about parseIgnoreFile *)

\* a line without the whitespace before its first and after its last
\* character that is not whitespace
Stripped(line) ==
  LET solid == {i \in 1..Len(line) : line[i] \notin {" ", "\t", "\r", "\n"}}
  IN  IF solid = {} THEN <<>>
      ELSE SubSeq(line, CHOOSE i \in solid : \A j \in solid : i <= j,
                        CHOOSE i \in solid : \A j \in solid : j <= i)

\* the pattern of each line that is neither blank nor a comment, in order
RECURSIVE PatternsOfLines(_)
PatternsOfLines(lines) ==
  IF lines = <<>> THEN <<>>
  ELSE LET line == Stripped(Head(lines))
       IN  (IF line = <<>> \/ Head(line) = "#" THEN <<>>
            ELSE IF Last(line) = "/" THEN <<line \o <<"*","*">>>>
            ELSE <<line>>)
           \o PatternsOfLines(Tail(lines))

\* C21: parseIgnoreFile returns, in line order, one pattern per line that
\* is not blank and whose first character after the leading whitespace is
\* not "#": the trimmed line, with "**" appended when it ends in "/"; so no
\* pattern is empty, starts with "#" or ends with "/".
C21_OnePatternPerRuleLine ==
  parsedPatterns # Pending =>
    /\ parsedPatterns.patterns = PatternsOfLines(Split(ignoreContent, "\n"))
    /\ \A k \in 1..Len(parsedPatterns.patterns) :
         LET pattern == parsedPatterns.patterns[k]
         IN  pattern # <<>> /\ Head(pattern) # "#" /\ Last(pattern) # "/"

\* an indented comment, a directory rule with blanks around it and a
\* negation give docs/** and !keep.js
C21_Witness ==
  /\ parsedPatterns # Pending
  /\ ignoreContent = <<" "," ","#"," ","c","\n"," ","d","o","c","s","/"," ","\n","!","k","e","e","p",".","j","s">>
  /\ parsedPatterns.patterns = <<<<"d","o","c","s","/","*","*">>, <<"!","k","e","e","p",".","j","s">>>>

-----------------------------------------------------------------------------
(* Claims about the order of the statistics rows *)

RowExtension(row) == IF row.displayExt = <<"(","n","o"," ","e","x","t","e","n","s","i","o","n",")">> THEN <<>> ELSE row.displayExt

\* C22: the rows of the statistics table come by descending count, rows of
\* equal count by ascending extension name, and there is exactly one row
\* per distinct extension of the paths, with the number of its paths.
C22_RowsByCountThenName ==
  fileStatistics # Pending =>
    LET rows == fileStatistics.rows
        extensionOf == [i \in 1..Len(relativePaths) |->
                          ExtensionOfFinalSegment(relativePaths[i])]
    IN  /\ \A i \in 1..Len(rows) : \A j \in (i + 1)..Len(rows) :
             \/ rows[i].count > rows[j].count
             \/ /\ rows[i].count = rows[j].count
                /\ LocaleCompare(RowExtension(rows[i]), RowExtension(rows[j])) < 0
        /\ {RowExtension(rows[i]) : i \in 1..Len(rows)} = Range(extensionOf)
        /\ \A i \in 1..Len(rows) :
             rows[i].count
               = Cardinality({k \in 1..Len(relativePaths) : extensionOf[k] = RowExtension(rows[i])})

\* the scenario paths, where tsx comes before md and json in the input:
\* the rows are js, css, then json, md, tsx
C22_Witness ==
  /\ fileStatistics # Pending
  /\ relativePaths = ScenarioPaths
  /\ [i \in 1..Len(fileStatistics.rows) |-> fileStatistics.rows[i].displayExt]
       = <<<<"j","s">>, <<"c","s","s">>, <<"j","s","o","n">>, <<"m","d">>, <<"t","s","x">>>>

-----------------------------------------------------------------------------
(* More claims about the full-codebase export *)

\* the index of the first file entry with the extension of a summary entry
FirstAppearance(entry) ==
  LET ext == IF entry.name = <<"n","o","-","e","x","t","e","n","s","i","o","n">> THEN <<>> ELSE entry.name
  IN  CHOOSE i \in 1..Len(xmlData.files) :
        /\ xmlData.files[i].extension = ext
        /\ \A j \in 1..(i - 1) : xmlData.files[j].extension # ext

\* C23: the extension entries of the summary come by descending file
\* count, and entries of equal count in the order in which their extensions
\* first appear in the FileRecord list.
C23_ExtensionsByCountStable ==
  xmlData # Pending =>
    LET entries == xmlData.summary.extensions
    IN  \A i \in 1..Len(entries) : \A j \in (i + 1)..Len(entries) :
          \/ entries[i].count > entries[j].count
          \/ /\ entries[i].count = entries[j].count
             /\ FirstAppearance(entries[i]) < FirstAppearance(entries[j])

\* three records without extension, css and js, in that order: the three
\* entries of count 1 stay in input order, which is not the order of their
\* names
C23_Witness ==
  /\ xmlData # Pending
  /\ Len(fileContents) = 3
  /\ [i \in 1..Len(xmlData.summary.extensions) |-> xmlData.summary.extensions[i].name]
       = <<<<"n","o","-","e","x","t","e","n","s","i","o","n">>, <<"c","s","s">>, <<"j","s">>>>

\* average is total / count rounded to the nearest integer, an exact half
\* rounded up
IsRoundedQuotient(average, total, count) ==
  /\ average.kind = "finite"
  /\ 2 * (average.value * count - total) <= count
  /\ 2 * (total - average.value * count) < count

\* C24: for a non-empty corpus the two averages of the corpus statistics
\* and of every extension entry are the exact quotient of the total by the
\* file count (of the corpus, of the extension) rounded to the nearest
\* integer, exact halves away from zero.
C24_AveragesRounded ==
  (xmlData # Pending /\ fileContents # <<>>) =>
    LET statistics == xmlData.summary.statistics
        entries    == xmlData.summary.extensions
    IN  /\ IsRoundedQuotient(statistics.averageLinesPerFile,
                             statistics.totalLines, statistics.totalFiles)
        /\ IsRoundedQuotient(statistics.averageCharactersPerFile,
                             statistics.totalCharacters, statistics.totalFiles)
        /\ \A k \in 1..Len(entries) :
             /\ IsRoundedQuotient(entries[k].averageLinesPerFile,
                                  entries[k].totalLines, entries[k].count)
             /\ IsRoundedQuotient(entries[k].averageCharactersPerFile,
                                  entries[k].totalCharacters, entries[k].count)

\* two files with 5 lines together: the average is 3
C24_Witness ==
  /\ xmlData # Pending
  /\ xmlData.summary.statistics.totalFiles = 2
  /\ xmlData.summary.statistics.totalLines = 5
  /\ xmlData.summary.statistics.averageLinesPerFile = Finite(3)

-----------------------------------------------------------------------------
(* The two getFileExtension functions on the relative path of one file *)

\* path.basename(p) on Windows, where both / and \ separate segments
BasenameWin32(p) ==
  LET seps == {i \in 1..Len(p) : p[i] \in {"/", "\\"}}
      last == IF seps = {} THEN 0 ELSE CHOOSE i \in seps : \A j \in seps : j <= i
  IN  SubSeq(p, last + 1, Len(p))

\* getFileExtension of generate-project-structure.js on Windows
getFileExtensionOfBasenameWin32(path) ==
  LET filename     == BasenameWin32(path)
      lastDotIndex == LastIndexOf(filename, ".")
  IN  IF lastDotIndex = 0 \/ lastDotIndex = 1 THEN <<>>
      ELSE ToLowerCase(SubSeq(filename, lastDotIndex + 1, Len(filename)))

\* directories and file names a project may have
ExtensionDirectories == {<<>>, <<<<"s","r","c">>>>, <<<<"m","y",".","a","p","p">>>>, <<<<".","c","o","n","f","i","g">>>>, <<<<"s","r","c">>, <<"v","1",".","2">>>>}

ExtensionFilenames ==
  {<<"a","p","p",".","j","s">>, <<"S","e","r","v","e","r",".","J","S">>, <<"D","o","c","k","e","r","f","i","l","e">>, <<".","e","n","v">>, <<"a","r","c","h","i","v","e",".","t","a","r",".","g","z">>, <<".","e","s","l","i","n","t","r","c",".","j","s","o","n">>,
   <<"n","o","t","e","s",".">>}

\* path.relative gives the segments separated by path.sep
InitExtension ==
  /\ DiscoveryIdle
  /\ ReadIdle
  /\ TreeIdle
  /\ ExportIdle
  /\ RunIdle
  /\ TechIdle
  /\ ParseIdle
  /\ ScaffoldIdle
  /\ \E platform \in {"posix", "win32"}, dir \in ExtensionDirectories,
        filename \in ExtensionFilenames :
       extensionCall =
         [status       |-> "called",
          platform     |-> platform,
          relativePath |-> JoinWith(Append(dir, filename),
                                    IF platform = "win32" THEN "\\" ELSE "/")]
  /\ extensionResult = Pending

GetFileExtensions ==
  /\ extensionResult = Pending
  /\ extensionResult' =
       [status    |-> "returned",
        structure |-> IF extensionCall.platform = "win32"
                      THEN getFileExtensionOfBasenameWin32(extensionCall.relativePath)
                      ELSE getFileExtensionOfBasename(extensionCall.relativePath),
        codebase  |-> getFileExtension(extensionCall.relativePath)]
  /\ UNCHANGED <<extensionCall, discoveryVars, readVars, treeVars, exportVars, runVars, techVars, parseVars, scaffoldVars>>

NextExtension == GetFileExtensions

SpecExtension == InitExtension /\ [][NextExtension]_vars

\* C29: for the relative path of every file, the getFileExtension of
\* generate-project-structure.js and the getFileExtension of
\* generate-full-codebase.js return the same extension.
C29_SameExtension ==
  extensionResult # Pending => extensionResult.structure = extensionResult.codebase

-----------------------------------------------------------------------------
(* scaffold-handler.js: handleScaffoldCommand *)

\* the keys of SCAFFOLDERS
SCAFFOLDERS == {"nextjs", "react", "react-native", "python-mcp", "python-automation"}

\* SCAFFOLDERS is an object literal: SCAFFOLDERS[type] also finds what the
\* object inherits from Object.prototype. "constructor" is Object, which
\* new accepts and which returns the options object it is given;
\* "toString" is a function and "__proto__" an object that new rejects.
\* Any other name gives undefined.
ScaffoldersLookup(type) ==
  IF type \in SCAFFOLDERS THEN "scaffolder"
  ELSE IF type = "constructor" THEN "Object"
  ELSE IF type \in {"toString", "__proto__"} THEN "not a constructor"
  ELSE "undefined"

ScaffoldTypes == SCAFFOLDERS \cup {"vue", "constructor", "toString"}

\* the steps that may throw, with none for a run in which nothing does
ScaffoldFailures == {"none", "mkdirSync", "scaffold", "installDependencies", "initializeGit"}

\* handleScaffoldCommand(type, name, options) in the surroundings call
\* describes: the steps that took effect, in order, the architecture data
\* handed to the scaffolder, and how the promise settled
handleScaffoldCommand(call) ==
  LET found     == ScaffoldersLookup(call.type)
      rejected(steps, message) ==
        [status |-> "rejected", steps |-> steps, architectureData |-> "null",
         message |-> message]
      created   == <<"mkdirSync">>
      parsed    == IF call.architecture = "absent" THEN created
                   ELSE Append(created, "parseArchitectureFile")
      architectureData == IF call.architecture = "parsable" THEN "parsed" ELSE "null"
      scaffolded == Append(parsed, "scaffold")
      install   == call.install /\ call.supportsDependencyInstallation
      installed == IF install THEN Append(scaffolded, "installDependencies") ELSE scaffolded
      done      == IF call.git THEN Append(installed, "initializeGit") ELSE installed
  IN  IF found = "undefined"
      THEN rejected(<<>>, "Unsupported project type: " \o call.type)
      ELSE IF call.targetExists
      THEN rejected(<<>>, "Directory already exists")
      ELSE IF call.failure = "mkdirSync"
      THEN rejected(<<>>, "EACCES: permission denied, mkdir")
      ELSE IF found = "not a constructor"
      THEN rejected(parsed, "ScaffolderClass is not a constructor")
      ELSE IF found = "Object"
      THEN rejected(parsed, "scaffolder.scaffold is not a function")
      ELSE IF call.failure = "scaffold"
      THEN rejected(parsed, "scaffold failed")
      ELSE IF install /\ call.failure = "installDependencies"
      THEN rejected(scaffolded, "installDependencies failed")
      ELSE IF call.git /\ call.failure = "initializeGit"
      THEN rejected(installed, "initializeGit failed")
      ELSE [status |-> "resolved", steps |-> done,
            architectureData |-> architectureData, message |-> ""]

InitScaffold ==
  /\ DiscoveryIdle
  /\ ReadIdle
  /\ TreeIdle
  /\ ExportIdle
  /\ RunIdle
  /\ TechIdle
  /\ ParseIdle
  /\ ExtensionIdle
  /\ scaffoldCall \in
       [status : {"called"},
        type : ScaffoldTypes,
        targetExists : BOOLEAN,
        architecture : {"absent", "parsable", "unparsable"},
        install : BOOLEAN,
        git : BOOLEAN,
        supportsDependencyInstallation : BOOLEAN,
        failure : ScaffoldFailures]
  /\ scaffoldResult = Pending

HandleScaffoldCommand ==
  /\ scaffoldResult = Pending
  /\ scaffoldResult' = handleScaffoldCommand(scaffoldCall)
  /\ UNCHANGED <<scaffoldCall, discoveryVars, readVars, treeVars, exportVars, runVars, techVars, parseVars, extensionVars>>

NextScaffold == HandleScaffoldCommand

SpecScaffold == InitScaffold /\ [][NextScaffold]_vars

\* the steps of a scaffold command that goes through, in the claimed order
StepsInOrder(call) ==
  <<"mkdirSync">>
    \o (IF call.architecture = "absent" THEN <<>> ELSE <<"parseArchitectureFile">>)
    \o <<"scaffold">>
    \o (IF call.install /\ call.supportsDependencyInstallation
        THEN <<"installDependencies">> ELSE <<>>)
    \o (IF call.git THEN <<"initializeGit">> ELSE <<>>)

\* C30: handleScaffoldCommand rejects a type that is not one of the
\* supported types, or a target directory that exists, before any step has
\* taken effect; otherwise the steps that took effect are, in this order,
\* the creation of the directory, the parse of an existing architecture
\* file (whose failure leaves no architecture data and does not end the
\* command), scaffold(), installDependencies() when installation is not
\* disabled and the scaffolder supports it, and initializeGit() when git is
\* not disabled: all of them when the command succeeds, a prefix of them
\* when a step throws.
C30_RejectsFirstThenStepsInOrder ==
  scaffoldResult # Pending =>
    IF scaffoldCall.type \notin SCAFFOLDERS \/ scaffoldCall.targetExists
    THEN scaffoldResult.status = "rejected" /\ scaffoldResult.steps = <<>>
    ELSE /\ Len(scaffoldResult.steps) <= Len(StepsInOrder(scaffoldCall))
         /\ scaffoldResult.steps
              = SubSeq(StepsInOrder(scaffoldCall), 1, Len(scaffoldResult.steps))
         /\ scaffoldResult.status = "resolved" =>
              scaffoldResult.steps = StepsInOrder(scaffoldCall)
         /\ (scaffoldResult.status = "resolved" /\ scaffoldCall.architecture = "unparsable")
              => scaffoldResult.architectureData = "null"

=============================================================================
